---- MODULE Spec2Model ----
(***************************************************************************)
(* Pioneer Highlander legality checker: the check-legality request handler *)
(* and the CardManager lookups it is built on.                             *)
(***************************************************************************)
EXTENDS Integers, Sequences, FiniteSets, TLC

VARIABLES
  cards,                \* CardManager.cards: the loaded card records, in file order
  bannedList,           \* CardManager.bannedList
  allowedList,          \* CardManager.allowedList
  singletonExceptions,  \* CardManager.singletonExceptions
  buildMode,            \* isBuildMode(): Deno.args includes "build"
  request,              \* the last request handed to the check-legality handler
  response,             \* the Response the handler returned for it
  history,              \* the evaluations made so far: request and Response, in order
  deckText,             \* the deck list string handed to parseDeckList
  parsed,               \* what parseDeckList returned or threw for it
  bracketRequest,       \* the last request handed to the commander-bracket handler
  bracketResponse,      \* the Response the handler returned for it
  rateLimitStore,       \* RateLimiter.rateLimitStore: the entry of each client
  cleanupInterval,      \* RateLimiter.cleanupInterval: the cleanup timer
  now,                  \* Date.now(), in ms since the limiter was constructed
  checkResult,          \* what the last RateLimiter.check returned, and for whom
  checkLog,             \* the checks made so far, counted
  deckCache,            \* DeckCache.cache: the entries, in insertion order
  cacheCleanupDue,      \* when the DeckCache cleanup timer fires next
  getResult,            \* what the last DeckCache.get returned, and for which id
  cacheLog,             \* the last set of each deck id, and whether its entry was removed
  cacheFile,            \* cache/cards.json: missing, invalid, or one of two valid contents
  loader,               \* the calls of loadCards and downloadCards in progress
  inflight,             \* the check-legality requests being handled, in order of arrival
  fetchCall             \* the fetch-deck request being handled: its place and locals

\* the state of the check-legality service
legalityVars == <<cards, bannedList, allowedList, singletonExceptions, buildMode,
                  request, response>>
\* what the check-legality handler has no access to
limiterVars == <<rateLimitStore, cleanupInterval, now, checkResult, checkLog>>
cacheVars == <<deckCache, cacheCleanupDue, getResult, cacheLog>>
\* the parts of the application beside the four endpoints' own state
loadVars == <<cacheFile, loader, inflight>>
fetchVars == <<fetchCall>>
restVars == <<cacheVars, loadVars, fetchVars>>
otherVars == <<history, deckText, parsed, bracketRequest, bracketResponse,
               limiterVars, restVars>>
\* what parseDeckList has no access to
nonParserVars == <<legalityVars, history, bracketRequest, bracketResponse,
                   limiterVars, restVars>>
\* what the commander-bracket handler has no access to
nonBracketVars == <<legalityVars, history, deckText, parsed, limiterVars,
                    restVars>>
\* what the rate limiter has no access to
nonLimiterVars == <<legalityVars, history, deckText, parsed, bracketRequest,
                    bracketResponse, restVars>>
\* what the deck cache has no access to
nonCacheVars == <<legalityVars, history, deckText, parsed, bracketRequest,
                  bracketResponse, rateLimitStore, cleanupInterval, checkResult,
                  checkLog, loadVars, fetchVars>>
\* what loading and the requests in flight have no access to
nonLoadVars == <<bannedList, allowedList, singletonExceptions, buildMode, request,
                 response, history, deckText, parsed, bracketRequest,
                 bracketResponse, limiterVars, cacheVars, fetchVars>>

vars == <<legalityVars, otherVars>>

(***************************************************************************)
(* Bounds of the model.                                                    *)
(***************************************************************************)
MaxStore == 2   \* most records in the card store
MaxMain == 2    \* most main-deck lines of a request
MaxHistory == 3 \* most evaluations followed in a row
MaxLines == 4   \* most lines of a deck list string
MaxBracketLines == 3  \* most lines of a deck list sent to the bracket handler
MaxScoredLines == 2   \* most lines of a deck list sent along with a power score
MaxChecks == 33       \* most RateLimiter.check calls followed for the busy client
MaxOtherChecks == 1   \* most RateLimiter.check calls followed for another client
MaxClock == 120000    \* the latest time followed, in ms
MAX_CACHE_SIZE == 2   \* the capacity of the deck cache (1000 in deck-cache.ts)
MaxSets == 3          \* most DeckCache.set calls followed
MaxCacheClock == 3600001  \* the latest time followed for the deck cache, in ms
MaxAttempts == 6      \* most downloadCards calls followed within one load
MaxReloads == 1       \* most loadCards calls followed after the constructor's
MaxFetchRequests == 2 \* most fetch-deck requests followed, one after the other
MaxEvals == 2         \* most check-legality requests followed

(***************************************************************************)
(* JSON values.                                                            *)
(***************************************************************************)
Null == "null"        \* a JSON null
Absent == "absent"    \* a key that is not in the object at all

None == <<>>          \* "IScryfallCard | null": null
Some(x) == <<x>>      \* "IScryfallCard | null": a card

Includes(seq, x) == \E i \in 1..Len(seq) : seq[i] = x

(***************************************************************************)
(* Card data.  A type line is the sequence of its words; String            *)
(* toLowerCase() works word by word and includes("creature") looks for the *)
(* lower-cased word.                                                       *)
(***************************************************************************)
NivName == "Niv-Mizzet, Parun"
DFCName == "Front // Back"
FaceName == "Front"

Names == {"Island", NivName, FaceName, DFCName}

toLowerCase(w) ==
  CASE w = "Legendary" -> "legendary"
    [] w = "Creature" -> "creature"
    [] w = "Token" -> "token"
    [] w = "Basic" -> "basic"
    [] w = "Land" -> "land"
    [] w = "Artifact" -> "artifact"
    [] w = "Armageddon" -> "armageddon"
    [] w = "Time Warp" -> "time warp"
    [] w = "Take an Extra Turn" -> "take an extra turn"
    [] w = "Entomb" -> "entomb"
    [] w = "Ancient Tomb" -> "ancient tomb"
    [] w = "Sanguine Bond" -> "sanguine bond"
    [] w = "Exquisite Blood" -> "exquisite blood"
    [] w = "Splinter Twin" -> "splinter twin"
    [] w = "Deceiver Exarch" -> "deceiver exarch"
    [] OTHER -> w

typeLineIncludes(type_line, word) ==
  \E i \in 1..Len(type_line) : toLowerCase(type_line[i]) = word

NivMizzet ==
  [name |-> NivName, type_line |-> <<"Legendary", "Creature">>,
   layout |-> "normal", pioneer |-> "legal",
   color_identity |-> {"U", "R"}, card_faces |-> <<>>]

NivToken ==
  [name |-> NivName, type_line |-> <<"Token", "Creature">>,
   layout |-> "token", pioneer |-> "not_legal",
   color_identity |-> {}, card_faces |-> <<>>]

NivReprint ==
  [name |-> NivName, type_line |-> <<"Creature">>,
   layout |-> "normal", pioneer |-> "not_legal",
   color_identity |-> {"W"}, card_faces |-> <<>>]

Island ==
  [name |-> "Island", type_line |-> <<"Basic", "Land">>,
   layout |-> "normal", pioneer |-> "legal",
   color_identity |-> {"U"}, card_faces |-> <<>>]

FrontBack ==
  [name |-> DFCName, type_line |-> <<"Legendary", "Creature">>,
   layout |-> "transform", pioneer |-> "legal",
   color_identity |-> {"W"}, card_faces |-> <<FaceName, "Back">>]

FrontToken ==
  [name |-> FaceName, type_line |-> <<"Token", "Artifact">>,
   layout |-> "normal", pioneer |-> "legal",
   color_identity |-> {}, card_faces |-> <<>>]

CardPool == {NivMizzet, NivToken, NivReprint, Island, FrontBack, FrontToken}

RECURSIVE SeqsUpTo(_, _)
SeqsUpTo(S, n) ==
  IF n = 0 THEN {<<>>}
  ELSE LET shorter == SeqsUpTo(S, n - 1)
       IN shorter \cup {Append(s, x) : s \in {t \in shorter : Len(t) = n - 1}, x \in S}

Stores == SeqsUpTo(CardPool, MaxStore)

(***************************************************************************)
(* CardManager                                                             *)
(***************************************************************************)
findDFCCard(cardName) ==
  LET hits == SelectSeq(cards, LAMBDA c : Includes(c.card_faces, cardName))
  IN IF Len(hits) > 0 THEN Some(hits[1]) ELSE None

\* isCardLegal in which the ban list is consulted before the allow list
isCardLegal_banWins(cardName, cardData) ==
  /\ ~Includes(bannedList, cardName)
  /\ \/ Includes(allowedList, cardName)
     \/ cardData.pioneer = "legal"

isCardLegal(cardName, cardData) ==
  \/ Includes(allowedList, cardName)
  \/ /\ cardData.pioneer = "legal"
     /\ ~Includes(bannedList, cardName)

isToken(card) ==
  \/ card.layout = "token"
  \/ typeLineIncludes(card.type_line, "token")
  \/ card.layout = "double_faced_token"

\* findRealCard that takes the first record of the name, token or not
findRealCard_anyMatch(cardName) ==
  LET matchingCards == SelectSeq(cards, LAMBDA c : c.name = cardName)
  IN IF Len(matchingCards) > 0 THEN Some(matchingCards[1]) ELSE None

findRealCard(cardName) ==
  LET matchingCards == SelectSeq(cards, LAMBDA c : c.name = cardName)
  IN IF Len(matchingCards) > 1
     THEN LET nonTokens == SelectSeq(matchingCards, LAMBDA c : ~isToken(c))
          IN IF Len(nonTokens) > 0 THEN Some(nonTokens[1]) ELSE None
     ELSE IF Len(matchingCards) = 1 /\ ~isToken(matchingCards[1])
          THEN Some(matchingCards[1])
          ELSE None

getCardWithLegality(cardName) ==
  LET card == findRealCard(cardName)
  IN IF card = None THEN None
     ELSE Some([card[1] EXCEPT !.pioneer =
                  IF isCardLegal(cardName, card[1]) THEN "legal" ELSE "not_legal"])

fetchCard(cardName) == getCardWithLegality(cardName)

\* pushes one copy of the card for every i in 0..quantity-1
addCardToList(card, quantity, legalCards) ==
  legalCards \o [i \in 1..quantity |-> card]

\* checkCardLegality that drops a name it cannot resolve instead of listing it
checkCardLegality_skipNotFound(cardName, quantity, lists) ==
  LET direct == getCardWithLegality(cardName)
      dfc == findDFCCard(cardName)
      cardData ==
        IF direct # None THEN direct
        ELSE IF dfc # None /\ ~isToken(dfc[1])
             THEN getCardWithLegality(dfc[1].name)
             ELSE None
  IN IF cardData = None
     THEN lists
     ELSE IF cardData[1].pioneer # "legal"
          THEN [lists EXCEPT !.illegalCards = Append(@, cardName)]
          ELSE [lists EXCEPT !.legalCards = addCardToList(cardData[1], quantity, @)]

\* lists is [legalCards, illegalCards]; the result is the two lists after the call
checkCardLegality(cardName, quantity, lists) ==
  LET direct == getCardWithLegality(cardName)
      dfc == findDFCCard(cardName)
      cardData ==
        IF direct # None THEN direct
        ELSE IF dfc # None /\ ~isToken(dfc[1])
             THEN getCardWithLegality(dfc[1].name)
             ELSE None
  IN IF cardData = None
     THEN [lists EXCEPT !.illegalCards = Append(@, cardName)]
     ELSE IF cardData[1].pioneer # "legal"
          THEN [lists EXCEPT !.illegalCards = Append(@, cardName)]
          ELSE [lists EXCEPT !.legalCards = addCardToList(cardData[1], quantity, @)]

RECURSIVE checkMainDeck(_, _, _)
checkMainDeck(mainDeck, i, lists) ==
  IF i > Len(mainDeck) THEN lists
  ELSE checkMainDeck(mainDeck, i + 1,
         checkCardLegality(mainDeck[i].name, mainDeck[i].quantity, lists))

\* testDecklist whose illegalCards array outlives the call: it starts from the
\* list the previous evaluation left
testDecklist_keepsLists(mainDeck, commander) ==
  checkMainDeck(mainDeck, 1,
    checkCardLegality(commander.name, commander.quantity,
                      [legalCards |-> <<>>,
                       illegalCards |-> IF Len(history) > 0
                                        THEN history[Len(history)].response.illegalCards
                                        ELSE <<>>]))

testDecklist(mainDeck, commander) ==
  checkMainDeck(mainDeck, 1,
    checkCardLegality(commander.name, commander.quantity,
                      [legalCards |-> <<>>, illegalCards |-> <<>>]))

(***************************************************************************)
(* CardManager.parseDeckList.  A string is the sequence of its characters. *)
(***************************************************************************)
Space == " "
Newline == "\n"
DigitValue == [c \in {"0", "1", "2"} |-> CASE c = "0" -> 0 [] c = "1" -> 1 [] c = "2" -> 2]
IsDigit(c) == c \in DOMAIN DigitValue

\* String.prototype.split(separator) for a one-character separator
RECURSIVE splitFrom(_, _, _, _, _)
splitFrom(str, separator, i, current, pieces) ==
  IF i > Len(str) THEN Append(pieces, current)
  ELSE IF str[i] = separator
       THEN splitFrom(str, separator, i + 1, <<>>, Append(pieces, current))
       ELSE splitFrom(str, separator, i + 1, Append(current, str[i]), pieces)

split(str, separator) == splitFrom(str, separator, 1, <<>>, <<>>)

\* Array.prototype.join(separator)
RECURSIVE join(_, _)
join(pieces, separator) ==
  IF Len(pieces) = 0 THEN <<>>
  ELSE IF Len(pieces) = 1 THEN pieces[1]
  ELSE pieces[1] \o <<separator>> \o join(Tail(pieces), separator)

\* String.prototype.trim(): white space is removed from both ends
RECURSIVE trimStart(_)
trimStart(str) ==
  IF Len(str) > 0 /\ str[1] = Space THEN trimStart(Tail(str)) ELSE str

RECURSIVE trimEnd(_)
trimEnd(str) ==
  IF Len(str) > 0 /\ str[Len(str)] = Space
  THEN trimEnd(SubSeq(str, 1, Len(str) - 1))
  ELSE str

trim(str) == trimEnd(trimStart(str))

\* parseInt(str, 10): the value of the leading run of decimal digits, NaN when
\* the string does not start with a digit; what follows the digits is ignored
NaN == [nan |-> TRUE, value |-> 0]

RECURSIVE parseDigits(_, _, _)
parseDigits(str, i, value) ==
  IF i <= Len(str) /\ IsDigit(str[i])
  THEN parseDigits(str, i + 1, 10 * value + DigitValue[str[i]])
  ELSE value

parseInt(str) ==
  IF Len(str) > 0 /\ IsDigit(str[1])
  THEN [nan |-> FALSE, value |-> parseDigits(str, 1, 0)]
  ELSE NaN

isNaN(number) == number.nan

\* Array.prototype.findIndex, 1-based; 0 stands for -1
RECURSIVE findBlankFrom(_, _)
findBlankFrom(lines, i) ==
  IF i > Len(lines) THEN 0
  ELSE IF trim(lines[i]) = <<>> THEN i
  ELSE findBlankFrom(lines, i + 1)

findIndexOfBlank(lines) == findBlankFrom(lines, 1)

NoCard == [quantity |-> 0, name |-> <<>>]
NotParsed == [returned |-> FALSE, threw |-> FALSE, error |-> "", mainDeck |-> <<>>,
              commander |-> NoCard]
Throw(message) == [NotParsed EXCEPT !.threw = TRUE, !.error = message]

\* parseLine that keeps only the first word after the quantity as the name
parseLine_firstWord(line) ==
  LET pieces == split(line, Space)
      quantity == parseInt(pieces[1])
  IN [invalid |-> isNaN(quantity) \/ quantity.value < 1,
      card |-> [quantity |-> quantity.value,
                name |-> IF Len(pieces) > 1 THEN pieces[2] ELSE <<>>]]

\* const [quantityStr, ...cardName] = line.split(" ") and the DeckCard made of it
parseLine(line) ==
  LET pieces == split(line, Space)
      quantity == parseInt(pieces[1])
  IN [invalid |-> isNaN(quantity) \/ quantity.value < 1,
      card |-> [quantity |-> quantity.value, name |-> join(Tail(pieces), Space)]]

\* mainDeckLines.map(...): the first invalid line throws
RECURSIVE mapMainDeck(_, _, _)
mapMainDeck(mainDeckLines, i, mainDeck) ==
  IF i > Len(mainDeckLines) THEN [threw |-> FALSE, mainDeck |-> mainDeck]
  ELSE LET entry == parseLine(mainDeckLines[i])
       IN IF entry.invalid THEN [threw |-> TRUE, mainDeck |-> <<>>]
          ELSE mapMainDeck(mainDeckLines, i + 1, Append(mainDeck, entry.card))

parseDeckList(deckList) ==
  LET lines == split(deckList, Newline)
      commanderIndex == findIndexOfBlank(lines)
  IN IF commanderIndex = 0
     THEN Throw("Invalid deck list format: No separator line found")
     ELSE
       LET mainDeckLines == SubSeq(lines, 1, commanderIndex - 1)
           commanderLine == IF commanderIndex + 1 <= Len(lines)
                            THEN trim(lines[commanderIndex + 1])
                            ELSE <<>>
       IN IF commanderLine = <<>>
          THEN Throw("Invalid deck list format: No commander found")
          ELSE
            LET commanderEntry == parseLine(commanderLine)
                mainDeck == mapMainDeck(mainDeckLines, 1, <<>>)
            IN IF commanderEntry.invalid THEN Throw("Invalid commander quantity")
               ELSE IF mainDeck.threw THEN Throw("Invalid quantity in line")
               ELSE [NotParsed EXCEPT !.returned = TRUE,
                                      !.mainDeck = mainDeck.mainDeck,
                                      !.commander = commanderEntry.card]

(***************************************************************************)
(* commander-bracket: the requirement table, the card catalogs (the        *)
(* entries the modelled decks can name) and analyzeDeckForBracket.         *)
(***************************************************************************)
Infinity == -1   \* Number.POSITIVE_INFINITY

\* a table whose last row still bounds mass land denial
BRACKET_REQUIREMENTS_bounded ==
  <<[maxMassLandDenial |-> 0, maxExtraTurns |-> 0, maxTutors |-> 2,
     maxGameChangers |-> 0, maxTwoCardCombos |-> 0,
     allowsExtraTurnChaining |-> FALSE, allowsEarlyGameCombos |-> FALSE],
    [maxMassLandDenial |-> 0, maxExtraTurns |-> 2, maxTutors |-> 3,
     maxGameChangers |-> 0, maxTwoCardCombos |-> 0,
     allowsExtraTurnChaining |-> FALSE, allowsEarlyGameCombos |-> FALSE],
    [maxMassLandDenial |-> 0, maxExtraTurns |-> 3, maxTutors |-> Infinity,
     maxGameChangers |-> 3, maxTwoCardCombos |-> Infinity,
     allowsExtraTurnChaining |-> FALSE, allowsEarlyGameCombos |-> FALSE],
    [maxMassLandDenial |-> 0, maxExtraTurns |-> Infinity, maxTutors |-> Infinity,
     maxGameChangers |-> Infinity, maxTwoCardCombos |-> Infinity,
     allowsExtraTurnChaining |-> TRUE, allowsEarlyGameCombos |-> TRUE]>>

BRACKET_REQUIREMENTS ==
  <<[maxMassLandDenial |-> 0, maxExtraTurns |-> 0, maxTutors |-> 2,
     maxGameChangers |-> 0, maxTwoCardCombos |-> 0,
     allowsExtraTurnChaining |-> FALSE, allowsEarlyGameCombos |-> FALSE],
    [maxMassLandDenial |-> 0, maxExtraTurns |-> 2, maxTutors |-> 3,
     maxGameChangers |-> 0, maxTwoCardCombos |-> 0,
     allowsExtraTurnChaining |-> FALSE, allowsEarlyGameCombos |-> FALSE],
    [maxMassLandDenial |-> 0, maxExtraTurns |-> 3, maxTutors |-> Infinity,
     maxGameChangers |-> 3, maxTwoCardCombos |-> Infinity,
     allowsExtraTurnChaining |-> FALSE, allowsEarlyGameCombos |-> FALSE],
    [maxMassLandDenial |-> Infinity, maxExtraTurns |-> Infinity, maxTutors |-> Infinity,
     maxGameChangers |-> Infinity, maxTwoCardCombos |-> Infinity,
     allowsExtraTurnChaining |-> TRUE, allowsEarlyGameCombos |-> TRUE]>>

MASS_LAND_DENIAL_CARDS == {"armageddon", "blood moon"}
EXTRA_TURN_CHAIN_CARDS == {"time warp", "expropriate"}
GAME_CHANGER_CARDS == {"ancient tomb", "demonic tutor", "expropriate"}
TUTOR_CARDS == {"entomb", "demonic tutor", "enlightened tutor"}

\* lowerCard.includes("extra turn") || lowerCard.includes("additional turn")
includesExtraTurn(lowerCard) == lowerCard \in {"take an extra turn"}

\* addCombo stores the combo under both orders of the pair
addCombo(combos, card1, card2, totalCost) ==
  combos \cup {[key |-> <<card1, card2>>, totalCost |-> totalCost],
               [key |-> <<card2, card1>>, totalCost |-> totalCost]}

TWO_CARD_COMBOS ==
  addCombo(addCombo(addCombo({},
    "kiki-jiki, mirror breaker", "zealous conscripts", 8),
    "sanguine bond", "exquisite blood", 10),
    "splinter twin", "deceiver exarch", 7)

\* count > max, where max may be Number.POSITIVE_INFINITY
exceeds_atLeast(count, max) == max # Infinity /\ count >= max

exceeds(count, max) == max # Infinity /\ count > max

\* the two nested loops over i < j
RECURSIVE comboLoop(_, _, _, _)
comboLoop(cardNames, i, j, twoCardCombos) ==
  IF i > Len(cardNames) THEN twoCardCombos
  ELSE IF j > Len(cardNames) THEN comboLoop(cardNames, i + 1, i + 2, twoCardCombos)
  ELSE LET comboInfo == {c \in TWO_CARD_COMBOS : c.key = <<cardNames[i], cardNames[j]>>}
       IN IF comboInfo # {}
          THEN comboLoop(cardNames, i, j + 1,
                 Append(twoCardCombos,
                        [cards |-> <<cardNames[i], cardNames[j]>>,
                         isEarlyGame |-> (CHOOSE c \in comboInfo : TRUE).totalCost < 8]))
          ELSE comboLoop(cardNames, i, j + 1, twoCardCombos)

\* the requirements of one table row that the deck fails, in the order checked
failedRequirements(analysis, hasExtraTurnChaining, hasEarlyGameCombos, requirements) ==
  SelectSeq(<<"massLandDenial", "extraTurns", "tutors", "gameChangers",
              "twoCardCombos", "extraTurnChaining", "earlyGameCombos">>,
    LAMBDA r :
      CASE r = "massLandDenial" ->
             exceeds(Len(analysis.massLandDenial), requirements.maxMassLandDenial)
        [] r = "extraTurns" ->
             exceeds(Len(analysis.extraTurns), requirements.maxExtraTurns)
        [] r = "tutors" -> exceeds(Len(analysis.tutors), requirements.maxTutors)
        [] r = "gameChangers" ->
             exceeds(Len(analysis.gameChangers), requirements.maxGameChangers)
        [] r = "twoCardCombos" ->
             exceeds(Len(analysis.twoCardCombos), requirements.maxTwoCardCombos)
        [] r = "extraTurnChaining" ->
             hasExtraTurnChaining /\ ~requirements.allowsExtraTurnChaining
        [] r = "earlyGameCombos" ->
             hasEarlyGameCombos /\ ~requirements.allowsEarlyGameCombos)

\* for (bracketNum = 1; bracketNum <= 5; bracketNum++): the first row that
\* passes ends the loop; reading a row past the table throws a TypeError
RECURSIVE bracketLoop(_, _, _, _, _)
bracketLoop(analysis, hasExtraTurnChaining, hasEarlyGameCombos, bracketNum, requirementsFailed) ==
  IF bracketNum > 5
  THEN [threw |-> FALSE, minimumBracket |-> 1, requirementsFailed |-> requirementsFailed]
  ELSE IF bracketNum > Len(BRACKET_REQUIREMENTS)
  THEN [threw |-> TRUE, minimumBracket |-> 1, requirementsFailed |-> requirementsFailed]
  ELSE
    LET failed == failedRequirements(analysis, hasExtraTurnChaining,
                    hasEarlyGameCombos, BRACKET_REQUIREMENTS[bracketNum])
    IN IF failed = <<>>
       THEN [threw |-> FALSE, minimumBracket |-> bracketNum,
             requirementsFailed |-> requirementsFailed]
       ELSE bracketLoop(analysis, hasExtraTurnChaining, hasEarlyGameCombos,
              bracketNum + 1,
              requirementsFailed
                \o [k \in 1..Len(failed) |->
                      [bracket |-> bracketNum, requirement |-> failed[k]]])

MathMax(a, b) == IF a >= b THEN a ELSE b

\* the recommendation is the power-score mapping alone
recommendedBracket_mapped(minimumBracket, powerScore) ==
  IF powerScore # None
  THEN IF powerScore[1] >= 800 THEN 4
       ELSE IF powerScore[1] >= 650 THEN 3
       ELSE IF powerScore[1] >= 500 THEN 2
       ELSE minimumBracket
  ELSE minimumBracket

\* powerScore is None when undefined
recommendedBracket(minimumBracket, powerScore) ==
  IF powerScore # None
  THEN IF powerScore[1] >= 800 THEN MathMax(minimumBracket, 4)
       ELSE IF powerScore[1] >= 650 THEN MathMax(minimumBracket, 3)
       ELSE IF powerScore[1] >= 500 THEN MathMax(minimumBracket, 2)
       ELSE minimumBracket
  ELSE minimumBracket

NoAnalysis ==
  [status |-> 0, error |-> "", massLandDenial |-> <<>>, extraTurns |-> <<>>,
   tutors |-> <<>>, gameChangers |-> <<>>, twoCardCombos |-> <<>>,
   minimumBracket |-> 1, recommendedBracket |-> 1,
   bracketRequirementsFailed |-> <<>>]

analyzeDeckForBracket(deckCards, powerScore) ==
  LET cardNames == [i \in 1..Len(deckCards) |-> toLowerCase(deckCards[i])]
      counted ==
        [NoAnalysis EXCEPT
           !.massLandDenial =
              SelectSeq(cardNames, LAMBDA c : c \in MASS_LAND_DENIAL_CARDS),
           !.extraTurns =
              SelectSeq(cardNames,
                LAMBDA c : \/ includesExtraTurn(toLowerCase(c))
                           \/ toLowerCase(c) \in EXTRA_TURN_CHAIN_CARDS),
           !.tutors = SelectSeq(cardNames, LAMBDA c : toLowerCase(c) \in TUTOR_CARDS),
           !.gameChangers =
              SelectSeq(cardNames, LAMBDA c : toLowerCase(c) \in GAME_CHANGER_CARDS),
           !.twoCardCombos = comboLoop(cardNames, 1, 2, <<>>)]
      hasExtraTurnChaining ==
        \E i \in 1..Len(cardNames) : toLowerCase(cardNames[i]) \in EXTRA_TURN_CHAIN_CARDS
      hasEarlyGameCombos ==
        \E i \in 1..Len(counted.twoCardCombos) : counted.twoCardCombos[i].isEarlyGame
      minimum == bracketLoop(counted, hasExtraTurnChaining, hasEarlyGameCombos, 1, <<>>)
  IN IF minimum.threw THEN [NoAnalysis EXCEPT !.status = 500, !.error = "TypeError"]
     ELSE [counted EXCEPT
             !.status = 200,
             !.minimumBracket = minimum.minimumBracket,
             !.bracketRequirementsFailed = minimum.requirementsFailed,
             !.recommendedBracket =
                recommendedBracket(minimum.minimumBracket, powerScore)]

\* a line of the deck list: a comment, or a card name with or without a count
\* ("2 Entomb", "2x Entomb", "Entomb")
RECURSIVE bracketParseFrom(_, _, _)
bracketParseFrom(lines, i, cardNames) ==
  IF i > Len(lines) THEN cardNames
  ELSE IF lines[i].comment THEN bracketParseFrom(lines, i + 1, cardNames)
  ELSE LET count == IF lines[i].count # None THEN lines[i].count[1] ELSE 1
       IN bracketParseFrom(lines, i + 1,
            cardNames \o [k \in 1..count |-> lines[i].name])

bracketParseDeckList(deckList) == bracketParseFrom(deckList, 1, <<>>)

\* Number(url.searchParams.get("powerScore") || "0")
Number(param) ==
  IF ~param.given THEN [nan |-> FALSE, value |-> 0]
  ELSE IF ~param.numeric THEN NaN
  ELSE [nan |-> FALSE, value |-> param.value]

\* powerScore || undefined
orUndefined(number) ==
  IF number.nan \/ number.value = 0 THEN None ELSE Some(number.value)

bracketError(message, status) == [NoAnalysis EXCEPT !.status = status, !.error = message]

bracketHandler(req) ==
  LET powerScore == Number(req.powerScore)
  IN IF req.deckId
     THEN bracketError("Fetching decks by ID is not yet implemented", 501)
     ELSE IF req.deckList # None
          THEN analyzeDeckForBracket(bracketParseDeckList(req.deckList[1]),
                                     orUndefined(powerScore))
          ELSE bracketError("No deck information provided", 400)

\* no request is being handled
NoBracketRequest ==
  [deckId |-> FALSE, deckList |-> Some(<<>>),
   powerScore |-> [given |-> FALSE, numeric |-> FALSE, value |-> 0]]
NoBracketResponse == NoAnalysis

(***************************************************************************)
(* RateLimiter: a sliding window of requests per client.  Times are in ms. *)
(* The sliding count prevWindowCount * (1 - elapsed / RATE_WINDOW) +       *)
(* currentWindowCount is carried as its numerator over RATE_WINDOW; at the *)
(* elapsed times followed here that is the value the floating-point        *)
(* expression has on either side of every comparison and rounding.         *)
(***************************************************************************)
RATE_LIMIT == 30
RATE_WINDOW == 60 * 1000
CLEANUP_PERIOD == 60 * 1000

\* the client addresses that reach the limiter, the first one the busy client
Clients == {"127.0.0.1", "10.0.0.7"}

digitChar(d) ==
  CASE d = 0 -> "0" [] d = 1 -> "1" [] d = 2 -> "2" [] d = 3 -> "3"
    [] d = 4 -> "4" [] d = 5 -> "5" [] d = 6 -> "6" [] d = 7 -> "7"
    [] d = 8 -> "8" [] d = 9 -> "9"

RECURSIVE digitsOf(_)
digitsOf(n) ==
  IF n < 10 THEN <<digitChar(n)>>
  ELSE Append(digitsOf(n \div 10), digitChar(n % 10))

\* Number.prototype.toString() of an integer: the characters of its decimal
toString(n) == IF n < 0 THEN <<"-">> \o digitsOf(0 - n) ELSE digitsOf(n)

\* Math.floor(a / b) and Math.ceil(a / b), b > 0
MathFloor(a, b) == a \div b
MathCeil(a, b) == 0 - ((0 - a) \div b)

getRateLimitHeaders(remaining, t, retryAfter) ==
  LET headers == ("X-RateLimit-Limit" :> toString(RATE_LIMIT))
                 @@ ("X-RateLimit-Remaining" :> toString(remaining))
                 @@ ("X-RateLimit-Reset"
                       :> toString(MathFloor(t + RATE_WINDOW, 1000)))
  IN IF retryAfter # None
     THEN headers @@ ("Retry-After" :> toString(MathCeil(retryAfter[1], 1000)))
     ELSE headers

\* slidingWindowCount * RATE_WINDOW
slidingWindowCount(entry, elapsed) ==
  entry.prevWindowCount * (RATE_WINDOW - elapsed)
    + entry.currentWindowCount * RATE_WINDOW

limitReached_above(count) == count > RATE_LIMIT * RATE_WINDOW

\* slidingWindowCount >= RATE_LIMIT
limitReached(count) == count >= RATE_LIMIT * RATE_WINDOW

newWindow(t, prevCount) ==
  [currentWindowStart |-> t, prevWindowCount |-> prevCount,
   currentWindowCount |-> 1]

\* RateLimiter.check: the store it leaves and the result it returns
check(store, clientIp, t) ==
  LET entry == store[clientIp]
  IN IF entry = None
     THEN [store |-> [store EXCEPT ![clientIp] = Some(newWindow(t, 0))],
           result |-> [allowed |-> TRUE, timeUntilReset |-> None,
                       headers |-> getRateLimitHeaders(RATE_LIMIT - 1, t, None)]]
     ELSE
       LET elapsed == t - entry[1].currentWindowStart
           count == slidingWindowCount(entry[1], elapsed)
       IN IF elapsed < RATE_WINDOW
          THEN IF limitReached(count)
               THEN [store |-> store,
                     result |->
                       [allowed |-> FALSE,
                        timeUntilReset |-> Some(RATE_WINDOW - elapsed),
                        headers |-> getRateLimitHeaders(
                                      0, t, Some(RATE_WINDOW - elapsed))]]
               ELSE [store |->
                       [store EXCEPT ![clientIp] =
                          Some([entry[1] EXCEPT !.currentWindowCount = @ + 1])],
                     result |->
                       [allowed |-> TRUE, timeUntilReset |-> None,
                        headers |-> getRateLimitHeaders(
                                      RATE_LIMIT - MathCeil(count, RATE_WINDOW) - 1,
                                      t, None)]]
          ELSE [store |->
                  [store EXCEPT ![clientIp] =
                     Some(newWindow(t, entry[1].currentWindowCount))],
                result |-> [allowed |-> TRUE, timeUntilReset |-> None,
                            headers |-> getRateLimitHeaders(RATE_LIMIT - 1, t, None)]]

\* RateLimiter.cleanup: the store it leaves
cleanup(store, t) ==
  [key \in DOMAIN store |->
     IF store[key] = None THEN None
     ELSE IF t - store[key][1].currentWindowStart >= RATE_WINDOW * 2 THEN None
     ELSE IF t - store[key][1].currentWindowStart >= RATE_WINDOW
     THEN Some([currentWindowStart |->
                  store[key][1].currentWindowStart + RATE_WINDOW,
                prevWindowCount |-> store[key][1].currentWindowCount,
                currentWindowCount |-> 0])
     ELSE store[key]]

\* no check has been made: the log of checks is empty
NoChecks ==
  [total |-> [c \in Clients |-> 0], firstAt |-> [c \in Clients |-> None],
   checks |-> [c \in Clients |-> 0]]

\* new RateLimiter(): an empty store and a running cleanup timer
LimiterConstructed ==
  /\ rateLimitStore = [c \in Clients |-> None]
  /\ cleanupInterval = Some(CLEANUP_PERIOD)
  /\ now = 0
  /\ checkResult = None
  /\ checkLog = NoChecks

(***************************************************************************)
(* DeckCache: a Map from deck id to a time-stamped deck.  The Map is the   *)
(* sequence of its entries in insertion order, which is the order its      *)
(* iteration visits them in.                                               *)
(***************************************************************************)
CACHE_TTL == 60 * 60 * 1000
CACHE_CLEANUP_PERIOD == 5 * 60 * 1000

\* the deck ids and the decks that reach the cache
DeckIds == {"", "deck-a", "deck-b"}
Decks == {"deck 1", "deck 2"}

\* Map.has, Map.delete and Map.set on the entry sequence
mapHas(entries, key) == \E i \in 1..Len(entries) : entries[i].key = key
mapDelete(entries, key) == SelectSeq(entries, LAMBDA e : e.key # key)
mapSet(entries, key, value) ==
  IF mapHas(entries, key)
  THEN [i \in 1..Len(entries) |->
          IF entries[i].key = key THEN [key |-> key, value |-> value]
          ELSE entries[i]]
  ELSE Append(entries, [key |-> key, value |-> value])
mapGet(entries, key) ==
  IF mapHas(entries, key)
  THEN Some((CHOOSE e \in {entries[i] : i \in 1..Len(entries)} : e.key = key).value)
  ELSE None

\* a get that never looks at the age of the entry
cacheGet_keepsExpired(entries, deckId, t) ==
  LET entry == mapGet(entries, deckId)
  IN IF entry = None THEN [cache |-> entries, value |-> Null]
     ELSE [cache |-> entries, value |-> entry[1].data]

\* DeckCache.get: the cache it leaves and the value it returns
cacheGet(entries, deckId, t) ==
  LET entry == mapGet(entries, deckId)
  IN IF entry = None THEN [cache |-> entries, value |-> Null]
     ELSE IF t - entry[1].timestamp > CACHE_TTL
     THEN [cache |-> mapDelete(entries, deckId), value |-> Null]
     ELSE [cache |-> entries, value |-> entry[1].data]

\* the loop over cache.entries(): the first entry with the least timestamp
oldestKey(entries) ==
  IF entries = <<>> THEN None
  ELSE LET first == CHOOSE i \in 1..Len(entries) :
                      /\ \A j \in 1..Len(entries) :
                           entries[j].value.timestamp >= entries[i].value.timestamp
                      /\ \A j \in 1..(i - 1) :
                           entries[j].value.timestamp > entries[i].value.timestamp
       IN Some(entries[first].key)

\* if (oldestKey): null and the empty string do not pass
truthy(key) == key # None /\ key # Some("")

\* DeckCache.set: the cache it leaves
cacheSet(entries, deckId, deck, t) ==
  LET room == IF Len(entries) >= MAX_CACHE_SIZE /\ truthy(oldestKey(entries))
              THEN mapDelete(entries, oldestKey(entries)[1])
              ELSE entries
  IN mapSet(room, deckId, [timestamp |-> t, data |-> deck])

\* DeckCache.cleanup: the cache it leaves
cacheCleanup(entries, t) ==
  SelectSeq(entries, LAMBDA e : ~(t - e.value.timestamp > CACHE_TTL))

\* no set has been made: the log of sets is empty
NoSets == [sets |-> 0, last |-> [id \in DeckIds |-> None]]

\* new DeckCache(): an empty map and a running cleanup timer
CacheConstructed ==
  /\ deckCache = <<>>
  /\ cacheCleanupDue = CACHE_CLEANUP_PERIOD
  /\ getResult = None
  /\ cacheLog = NoSets

(***************************************************************************)
(* CardManager.loadCards and downloadCards.  The two async functions call  *)
(* and await each other; the calls in progress form a stack of frames,     *)
(* each with the place it is suspended at: a loadCards frame at "read"     *)
(* (inside its try) or "catch" (awaiting downloadCards), a downloadCards   *)
(* frame at "fetch" or "reload" (inside its try) or "catch" (awaiting the  *)
(* next downloadCards).                                                    *)
(***************************************************************************)
\* the card records in a valid cache file: the one found at start-up and the
\* one a download writes
CachedCards == <<NivMizzet, Island>>
DownloadedCards == <<NivMizzet>>

fileContent(file) == IF file = "old" THEN CachedCards ELSE DownloadedCards

loadFrame == [fn |-> "loadCards", retryCount |-> 0, pc |-> "read"]
downloadFrame(retryCount) ==
  [fn |-> "downloadCards", retryCount |-> retryCount, pc |-> "fetch"]

\* downloadCards(retryCount = 3)
DEFAULT_RETRY_COUNT == 3

\* fetchWithRetry: the loop from attempt 1 to maxRetries fetches at all
canFetch(maxRetries) == maxRetries >= 1

suspendAt(stack, pc) == [stack EXCEPT ![Len(stack)].pc = pc]
callers(stack) == SubSeq(stack, 1, Len(stack) - 1)

\* the frame is inside the try block of downloadCards
inTry(frame) == frame.fn = "downloadCards" /\ frame.pc \in {"fetch", "reload"}

\* the loader after the top-level call returned
returned(load) ==
  [load EXCEPT !.stack = <<>>, !.outcome = "loaded", !.populated = TRUE]

\* await this.downloadCards(retryCount - 1)
retryCall(retryCount) == downloadFrame(retryCount - 1)

\* an error thrown into the callers: the catch block of the nearest
\* downloadCards suspended inside its try gets it, and either calls
\* downloadCards once more or throws in its turn
RECURSIVE propagate(_, _, _)
propagate(load, stack, error) ==
  IF stack = <<>>
  THEN [load EXCEPT !.stack = <<>>, !.outcome = "failed", !.error = error]
  ELSE LET top == stack[Len(stack)]
       IN IF inTry(top)
          THEN IF top.retryCount > 0
               THEN [load EXCEPT
                       !.stack = Append(suspendAt(stack, "catch"),
                                        retryCall(top.retryCount)),
                       !.attempts = @ + 1]
               ELSE propagate(load, callers(stack),
                      "Failed to download card data after all retry attempts")
          ELSE propagate(load, callers(stack), error)

\* no load is running and no request is in flight
LoaderIdle ==
  /\ cacheFile = "old"
  /\ loader = [stack |-> <<>>, outcome |-> "loaded", error |-> "",
               attempts |-> 0, fresh |-> 0, reloads |-> 0,
               populated |-> TRUE]
  /\ inflight = <<>>

(***************************************************************************)
(* fetch-deck handler: the deck id check, the rate limit, the cache lookup *)
(* and the loop of upstream fetches.  The handler is suspended at the      *)
(* fetch ("fetching") or at the wait before the next attempt ("backoff");  *)
(* what it does between two suspensions is one step.                       *)
(***************************************************************************)
maxRetries == 3
maxTimeout == 20000
baseTimeout == 10000

Pow(b, e) == IF e = 0 THEN 1 ELSE IF e = 1 THEN b ELSE IF e = 2 THEN b * b
             ELSE b * b * b

MathMin(a, b) == IF a < b THEN a ELSE b

\* baseTimeout * backoffFactor ^ retries with backoffFactor 1.5, capped
calculateBackoff(retries) ==
  MathMin((baseTimeout * Pow(3, retries)) \div Pow(2, retries), maxTimeout)

NoFetchResponse == [status |-> 0, error |-> "", xCache |-> "", rateLimited |-> FALSE]

\* new Response(body, {status}) with a body: a status outside 200..599 is a
\* RangeError, a status that allows no body (101, 103, 204, 205, 304) a
\* TypeError
newResponse(status, error, xCache, rateLimited) ==
  IF status < 200 \/ status > 599
  THEN [threw |-> "RangeError", message |-> "status out of range",
        response |-> NoFetchResponse]
  ELSE IF status \in {204, 205, 304}
  THEN [threw |-> "TypeError", message |-> "null body status cannot have body",
        response |-> NoFetchResponse]
  ELSE [threw |-> "", message |-> "",
        response |-> [status |-> status, error |-> error, xCache |-> xCache,
                      rateLimited |-> rateLimited]]

\* createError(message, status = 400, rateLimit) of fetch-deck.ts
fetchDeckCreateError(message, status, rateLimited) ==
  newResponse(status, message, "", rateLimited)

\* processMoxfieldData: the first commander, with quantity 1, and the mainboard
processMoxfieldData(moxfieldData) ==
  [commander |-> IF Len(moxfieldData.commanders) > 0
                 THEN Some([quantity |-> 1, name |-> moxfieldData.commanders[1]])
                 ELSE None,
   mainDeck |-> moxfieldData.mainboard]

\* the outer catch of the handler: the error's message, status 500, no
\* rate-limit headers
outerCatch(message) ==
  [next |-> "return",
   response |-> fetchDeckCreateError(message, 500, FALSE).response]

\* the catch block inside the loop, for an error of the given name
loopCatch(name, message, mentionsNetwork, retries) ==
  LET isNetworkError == name \in {"AbortError", "TypeError"} \/ mentionsNetwork
  IN IF isNetworkError /\ retries < maxRetries
     THEN [next |-> "retry", response |-> NoFetchResponse]
     ELSE IF isNetworkError
     THEN [next |-> "return",
           response |-> fetchDeckCreateError(
             "Request timeout or network error fetching deck from Moxfield",
             504, TRUE).response]
     ELSE outerCatch(message)

\* one pass of the loop body from the point fetch settles: what the handler
\* does with the upstream's answer
loopBody(outcome, retries) ==
  IF outcome.kind = "abort"
  THEN loopCatch("AbortError", "The signal has been aborted", FALSE, retries)
  ELSE IF outcome.kind = "network"
  THEN loopCatch("TypeError", "error sending request", FALSE, retries)
  ELSE IF ~(outcome.status \in 200..299)
  THEN IF outcome.status = 429 /\ retries < maxRetries
       THEN [next |-> "retry", response |-> NoFetchResponse]
       ELSE LET made == fetchDeckCreateError("Failed to fetch deck",
                                             outcome.status, TRUE)
            IN IF made.threw = ""
               THEN [next |-> "return", response |-> made.response]
               ELSE loopCatch(made.threw, made.message, FALSE, retries)
  ELSE IF ~outcome.body.valid
  THEN loopCatch("SyntaxError", "Unexpected token", FALSE, retries)
  ELSE [next |-> "break", response |-> NoFetchResponse]

\* the rest of the handler once the loop has left with the upstream's data
afterLoop(moxfieldData) ==
  LET processedDeck == processMoxfieldData(moxfieldData)
  IN IF processedDeck.commander = None
     THEN [cached |-> FALSE, deck |-> processedDeck,
           response |-> fetchDeckCreateError("No commander found in deck",
                                             400, TRUE).response]
     ELSE IF Len(processedDeck.mainDeck) = 0
     THEN [cached |-> FALSE, deck |-> processedDeck,
           response |-> fetchDeckCreateError(
             "Deck contains no cards in the mainboard", 400, TRUE).response]
     ELSE [cached |-> TRUE, deck |-> processedDeck,
           response |-> newResponse(200, "", "MISS", TRUE).response]

\* no fetch-deck request has arrived
FetchIdle ==
  fetchCall = [pc |-> "idle", deckId |-> "", clientIp |-> "", retries |-> 0,
               attempts |-> 0, last |-> None, requests |-> 0,
               response |-> NoFetchResponse]

(***************************************************************************)
(* check-legality handler                                                  *)
(***************************************************************************)
BASIC_LANDS == {"Plains", "Island", "Swamp", "Mountain", "Forest", "Wastes"}

NoIssues ==
  [size |-> Absent, commander |-> Absent, commanderType |-> Absent,
   colorIdentity |-> Absent, singleton |-> Absent, illegalCards |-> Absent]

\* A Response: its status and the keys of its JSON body.  "present" lists the
\* keys the body has; a key outside "present" holds a filler of its type.
EmptyBody ==
  [status |-> 200, present |-> {}, error |-> Absent, legal |-> FALSE,
   commander |-> Absent, colorIdentity |-> {}, deckSize |-> 0,
   requiredSize |-> 0, illegalCards |-> <<>>,
   colorIdentityViolations |-> <<>>, nonSingletonCards |-> <<>>,
   legalIssues |-> NoIssues]

\* an error Response that always carries status 500
createError_internal(message, status) ==
  [EmptyBody EXCEPT !.status = 500, !.present = {"error"}, !.error = message]

createError(message, status) ==
  [EmptyBody EXCEPT !.status = status, !.present = {"error"}, !.error = message]

\* checkCommander that answers an unknown commander with a client error
checkCommander_notFoundError(commander, commanderData) ==
  IF commanderData = None
  THEN Some(createError("Commander not found in database", 400))
  ELSE IF ~typeLineIncludes(commanderData[1].type_line, "creature")
  THEN Some([EmptyBody EXCEPT
               !.present = {"legal", "commander", "error", "legalIssues"},
               !.legal = FALSE,
               !.commander = commander.name,
               !.error = "Commander must be a creature",
               !.legalIssues = [NoIssues EXCEPT
                                  !.commanderType = "Commander must be a creature"]])
  ELSE IF ~typeLineIncludes(commanderData[1].type_line, "legendary")
  THEN Some([EmptyBody EXCEPT
               !.present = {"legal", "commander", "error", "legalIssues"},
               !.legal = FALSE,
               !.commander = commander.name,
               !.error = "Commander must be legendary",
               !.legalIssues = [NoIssues EXCEPT
                                  !.commanderType = "Commander must be legendary"]])
  ELSE None

\* checkCommander without the legendary test
checkCommander_creatureOnly(commander, commanderData) ==
  IF commanderData = None
  THEN Some([EmptyBody EXCEPT
               !.present = {"legal", "commander", "error"},
               !.legal = FALSE,
               !.commander = commander.name,
               !.error = "Commander not found in database"])
  ELSE IF ~typeLineIncludes(commanderData[1].type_line, "creature")
  THEN Some([EmptyBody EXCEPT
               !.present = {"legal", "commander", "error", "legalIssues"},
               !.legal = FALSE,
               !.commander = commander.name,
               !.error = "Commander must be a creature",
               !.legalIssues = [NoIssues EXCEPT
                                  !.commanderType = "Commander must be a creature"]])
  ELSE None

checkCommander(commander, commanderData) ==
  IF commanderData = None
  THEN Some([EmptyBody EXCEPT
               !.present = {"legal", "commander", "error"},
               !.legal = FALSE,
               !.commander = commander.name,
               !.error = "Commander not found in database"])
  ELSE IF ~typeLineIncludes(commanderData[1].type_line, "creature")
  THEN Some([EmptyBody EXCEPT
               !.present = {"legal", "commander", "error", "legalIssues"},
               !.legal = FALSE,
               !.commander = commander.name,
               !.error = "Commander must be a creature",
               !.legalIssues = [NoIssues EXCEPT
                                  !.commanderType = "Commander must be a creature"]])
  ELSE IF ~typeLineIncludes(commanderData[1].type_line, "legendary")
  THEN Some([EmptyBody EXCEPT
               !.present = {"legal", "commander", "error", "legalIssues"},
               !.legal = FALSE,
               !.commander = commander.name,
               !.error = "Commander must be legendary",
               !.legalIssues = [NoIssues EXCEPT
                                  !.commanderType = "Commander must be legendary"]])
  ELSE None

RECURSIVE sumQuantities(_, _, _)
sumQuantities(deck, i, total) ==
  IF i > Len(deck) THEN total
  ELSE sumQuantities(deck, i + 1, total + deck[i].quantity)

SetAdd(seq, x) == IF Includes(seq, x) THEN seq ELSE Append(seq, x)

\* the loop of lines 421-430; acc is [cardCounts, nonSingletonCards, singleton]
RECURSIVE singletonLoop(_, _, _)
singletonLoop(deck, i, acc) ==
  IF i > Len(deck) THEN acc
  ELSE LET card == deck[i]
       IN IF card.name \notin BASIC_LANDS /\ ~Includes(singletonExceptions, card.name)
          THEN LET count == acc.cardCounts[card.name] + card.quantity
                   counted == [acc EXCEPT !.cardCounts[card.name] = count]
               IN IF count > 1
                  THEN singletonLoop(deck, i + 1,
                         [counted EXCEPT !.singleton = FALSE,
                                         !.nonSingletonCards = SetAdd(@, card.name)])
                  ELSE singletonLoop(deck, i + 1, counted)
          ELSE singletonLoop(deck, i + 1, acc)

\* the loop of lines 437-453; acc is [cardDataCache, colorIdentityViolations, colorIdentity]
RECURSIVE colorLoop(_, _, _, _)
colorLoop(deck, i, colorIdentity, acc) ==
  IF i > Len(deck) THEN acc
  ELSE LET card == deck[i]
           cached == acc.cardDataCache[card.name]
           fetchedCard == fetchCard(card.name)
           cardData == IF cached # None THEN cached ELSE fetchedCard
           cache == IF cached = None /\ fetchedCard # None
                    THEN [acc EXCEPT !.cardDataCache[card.name] = fetchedCard]
                    ELSE acc
       IN IF cardData # None /\ ~(cardData[1].color_identity \subseteq colorIdentity)
          THEN colorLoop(deck, i + 1, colorIdentity,
                 [cache EXCEPT !.colorIdentity = FALSE,
                               !.colorIdentityViolations = SetAdd(@, card.name)])
          ELSE colorLoop(deck, i + 1, colorIdentity, cache)

\* sizeCheck with an upper limit instead of the exact size
sizeCheck_atMost(totalCards) == totalCards <= 100

\* line 410: legalChecks.size
sizeCheck(totalCards) == totalCards = 100

\* everyCheck that passes as soon as one check passes
everyCheck_some(legalChecks) == \E k \in DOMAIN legalChecks : legalChecks[k]

\* line 456: Object.values(legalChecks).every(check => check)
everyCheck(legalChecks) == \A k \in DOMAIN legalChecks : legalChecks[k]

\* legalIssues whose singleton entry tests the colour-identity flag
legalIssues_copied(legalChecks) ==
  [size |-> IF ~legalChecks.size THEN "Deck size incorrect" ELSE Null,
   commander |-> IF ~legalChecks.commander
                 THEN "Commander not legal in Pioneer" ELSE Null,
   commanderType |-> Null,
   colorIdentity |-> IF ~legalChecks.colorIdentity
                     THEN "Cards outside commander's color identity" ELSE Null,
   singleton |-> IF ~legalChecks.colorIdentity
                 THEN "Deck contains multiple copies" ELSE Null,
   illegalCards |-> IF ~legalChecks.illegalCards
                    THEN "Deck contains cards that aren't legal in the format"
                    ELSE Null]

\* lines 468-485: the legalIssues object of a full verdict
legalIssues(legalChecks) ==
  [size |-> IF ~legalChecks.size THEN "Deck size incorrect" ELSE Null,
   commander |-> IF ~legalChecks.commander
                 THEN "Commander not legal in Pioneer" ELSE Null,
   commanderType |-> Null,
   colorIdentity |-> IF ~legalChecks.colorIdentity
                     THEN "Cards outside commander's color identity" ELSE Null,
   singleton |-> IF ~legalChecks.singleton
                 THEN "Deck contains multiple copies" ELSE Null,
   illegalCards |-> IF ~legalChecks.illegalCards
                    THEN "Deck contains cards that aren't legal in the format"
                    ELSE Null]

\* lines 393-491: the body is valid JSON with a non-empty cards array and a commander
checkDeckWith(deckCards, commander, commanderData) ==
  LET commanderError == checkCommander(commander, commanderData)
  IN IF commanderError # None THEN commanderError[1]
     ELSE
       LET validCommanderData == commanderData[1]
           illegalCards == testDecklist(deckCards, commander).illegalCards
           cardQuantities == sumQuantities(deckCards, 1, 0)
           totalCards == cardQuantities + commander.quantity
           single == singletonLoop(deckCards, 1,
                       [cardCounts |-> [n \in Names |-> 0],
                        nonSingletonCards |-> <<>>, singleton |-> TRUE])
           colorIdentity == validCommanderData.color_identity
           color == colorLoop(deckCards, 1, colorIdentity,
                      [cardDataCache |-> [n \in Names |-> None],
                       colorIdentityViolations |-> <<>>, colorIdentity |-> TRUE])
           legalChecks ==
             [size |-> sizeCheck(totalCards),
              commander |-> validCommanderData.pioneer = "legal",
              colorIdentity |-> color.colorIdentity,
              singleton |-> single.singleton,
              illegalCards |-> Len(illegalCards) = 0]
           isLegal == everyCheck(legalChecks)
       IN [status |-> 200,
           present |-> {"legal", "commander", "colorIdentity", "deckSize",
                        "requiredSize", "illegalCards", "colorIdentityViolations",
                        "nonSingletonCards", "legalIssues"},
           error |-> Absent,
           legal |-> isLegal,
           commander |-> commander.name,
           colorIdentity |-> colorIdentity,
           deckSize |-> totalCards,
           requiredSize |-> 100,
           illegalCards |-> illegalCards,
           colorIdentityViolations |-> color.colorIdentityViolations,
           nonSingletonCards |-> single.nonSingletonCards,
           legalIssues |-> legalIssues(legalChecks)]

checkDeck(deckCards, commander) ==
  checkDeckWith(deckCards, commander, fetchCard(commander.name))

\* a handler that reads the body before it looks at the method
handler_bodyFirst(req) ==
  IF buildMode THEN createError("Service unavailable during build", 503)
  ELSE IF ~req.body.parses THEN createError("Failed to parse request body", 400)
  ELSE IF req.method # "POST" THEN createError("Method not allowed", 405)
  ELSE IF ~req.body.hasCards \/ Len(req.body.cards) = 0 \/ ~req.body.hasCommander
       THEN createError("Invalid deck data", 400)
       ELSE checkDeck(req.body.cards, req.body.commander)

handler(req) ==
  IF buildMode THEN createError("Service unavailable during build", 503)
  ELSE IF req.method # "POST" THEN createError("Method not allowed", 405)
  ELSE IF ~req.body.parses THEN createError("Failed to parse request body", 400)
  ELSE IF ~req.body.hasCards \/ Len(req.body.cards) = 0 \/ ~req.body.hasCommander
       THEN createError("Invalid deck data", 400)
       ELSE checkDeck(req.body.cards, req.body.commander)

(***************************************************************************)
(* Requests                                                                *)
(***************************************************************************)
CommanderQuantities == {1, 2}
MainQuantities == {1, 98}

CommanderEntries == [name : Names, quantity : CommanderQuantities]
MainEntries == [name : Names, quantity : MainQuantities]
MainDecks == SeqsUpTo(MainEntries, MaxMain) \ {<<>>}

SampleCommander == [name |-> NivName, quantity |-> 1]
SampleCards == <<[name |-> "Island", quantity |-> 98]>>

DeckBody(deckCards, commander) ==
  [parses |-> TRUE, hasCards |-> TRUE, cards |-> deckCards,
   hasCommander |-> TRUE, commander |-> commander]

DeckRequests ==
  {[method |-> "POST", body |-> DeckBody(d, c)] : d \in MainDecks, c \in CommanderEntries}

MalformedRequests ==
  {[method |-> "POST", body |-> [DeckBody(SampleCards, SampleCommander) EXCEPT !.parses = FALSE]],
   [method |-> "POST", body |-> [DeckBody(SampleCards, SampleCommander) EXCEPT !.hasCommander = FALSE]],
   [method |-> "POST", body |-> [DeckBody(<<>>, SampleCommander) EXCEPT !.hasCards = FALSE]],
   [method |-> "POST", body |-> DeckBody(<<>>, SampleCommander)]}

OtherMethodRequests ==
  {[method |-> "GET", body |-> DeckBody(SampleCards, SampleCommander)],
   [method |-> "GET", body |-> [DeckBody(SampleCards, SampleCommander) EXCEPT !.parses = FALSE]]}

Requests == DeckRequests \cup MalformedRequests \cup OtherMethodRequests

NoRequest == [method |-> "none", body |-> DeckBody(<<>>, SampleCommander)]
NoResponse == [EmptyBody EXCEPT !.status = 0]

(***************************************************************************)
(* The service                                                             *)
(***************************************************************************)
BannedLists == {<<>>, <<NivName>>}
AllowedLists == {<<>>, <<NivName>>}
SingletonExceptionLists == {<<>>, <<NivName>>}

Init ==
  /\ buildMode \in BOOLEAN
  /\ cards \in IF buildMode THEN {<<>>} ELSE Stores
  /\ bannedList \in BannedLists
  /\ allowedList \in AllowedLists
  /\ singletonExceptions \in SingletonExceptionLists
  /\ request = NoRequest
  /\ response = NoResponse
  /\ history = <<>>
  /\ deckText = <<>>
  /\ parsed = NotParsed
  /\ bracketRequest = NoBracketRequest
  /\ bracketResponse = NoBracketResponse
  /\ LimiterConstructed
  /\ CacheConstructed
  /\ LoaderIdle
  /\ FetchIdle

\* a request reaches the handler
Receive(req) ==
  /\ request = NoRequest
  /\ request' = req
  /\ UNCHANGED <<cards, bannedList, allowedList, singletonExceptions, buildMode,
                 response>>
  /\ UNCHANGED otherVars

\* the handler runs on the request and returns its Response
Handle ==
  /\ request # NoRequest
  /\ response = NoResponse
  /\ response' = handler(request)
  /\ UNCHANGED <<cards, bannedList, allowedList, singletonExceptions, buildMode,
                 request>>
  /\ UNCHANGED otherVars

\* the Response is sent; the service waits for the next request
Send ==
  /\ response # NoResponse
  /\ request' = NoRequest
  /\ response' = NoResponse
  /\ UNCHANGED <<cards, bannedList, allowedList, singletonExceptions, buildMode>>
  /\ UNCHANGED otherVars

BuildRequests ==
  MalformedRequests \cup OtherMethodRequests
    \cup {[method |-> "POST", body |-> DeckBody(SampleCards, SampleCommander)]}

Next ==
  \/ \E req \in (IF buildMode THEN BuildRequests ELSE Requests) : Receive(req)
  \/ Handle
  \/ Send

Spec == Init /\ [][Next]_vars

(***************************************************************************)
(* Repeated evaluations against one unchanged card store and rule lists.   *)
(* Every evaluation is appended to history.                                *)
(***************************************************************************)
RepeatRequests ==
  {[method |-> "POST",
    body |-> DeckBody(<<[name |-> "Island", quantity |-> 98],
                        [name |-> "Island", quantity |-> 1]>>,
                      [name |-> NivName, quantity |-> 1])],
   [method |-> "POST",
    body |-> DeckBody(<<[name |-> FaceName, quantity |-> 1],
                        [name |-> NivName, quantity |-> 1]>>,
                      [name |-> NivName, quantity |-> 1])],
   [method |-> "POST",
    body |-> DeckBody(<<[name |-> FaceName, quantity |-> 1],
                        [name |-> "Island", quantity |-> 98]>>,
                      [name |-> DFCName, quantity |-> 1])]}

RepeatInit == Init /\ ~buildMode

RepeatReceive(req) ==
  /\ Len(history) < MaxHistory
  /\ Receive(req)

\* the handler runs; the evaluation is recorded
Evaluate ==
  /\ request # NoRequest
  /\ response = NoResponse
  /\ response' = handler(request)
  /\ history' = Append(history, [request |-> request, response |-> response'])
  /\ UNCHANGED <<cards, bannedList, allowedList, singletonExceptions, buildMode,
                 request>>
  /\ UNCHANGED <<deckText, parsed, bracketRequest, bracketResponse, limiterVars,
                 restVars>>

RepeatNext ==
  \/ \E req \in RepeatRequests : RepeatReceive(req)
  \/ Evaluate
  \/ Send

RepeatSpec == RepeatInit /\ [][RepeatNext]_vars

(***************************************************************************)
(* parseDeckList applied to deck list strings.                             *)
(***************************************************************************)
DeckLines ==
  {<<>>,                                  \* an empty line
   <<" ">>,                               \* a line of white space
   <<"2", " ", "A">>,
   <<"1", " ", "A", " ", "B">>,           \* a name of two words
   <<"1", "2", " ", "B">>,
   <<"2">>,                               \* a quantity without a name
   <<" ", "2", " ", "A">>,                \* leading white space
   <<"2", " ", "A", " ">>,                \* trailing white space
   <<"2", " ", " ", "A">>,                \* two spaces after the quantity
   <<"0", " ", "A">>,
   <<"A", " ", "2">>,
   <<"2", "A", " ", "A">>}                \* digits followed by a letter

DeckTexts == {join(ls, Newline) : ls \in SeqsUpTo(DeckLines, MaxLines) \ {<<>>}}

ParseInit ==
  /\ buildMode = FALSE
  /\ cards = <<>>
  /\ bannedList = <<>>
  /\ allowedList = <<>>
  /\ singletonExceptions = <<>>
  /\ request = NoRequest
  /\ response = NoResponse
  /\ history = <<>>
  /\ deckText \in DeckTexts
  /\ parsed = NotParsed
  /\ bracketRequest = NoBracketRequest
  /\ bracketResponse = NoBracketResponse
  /\ LimiterConstructed
  /\ CacheConstructed
  /\ LoaderIdle
  /\ FetchIdle

\* parseDeckList runs on the string: it returns a deck list or throws
Parse ==
  /\ parsed = NotParsed
  /\ parsed' = parseDeckList(deckText)
  /\ UNCHANGED deckText
  /\ UNCHANGED nonParserVars

ParseNext == Parse

ParseSpec == ParseInit /\ [][ParseNext]_vars

(***************************************************************************)
(* The commander-bracket endpoint.                                         *)
(***************************************************************************)
BracketNames ==
  {"Armageddon", "Time Warp", "Take an Extra Turn", "Entomb", "Ancient Tomb",
   "Sanguine Bond", "Exquisite Blood", "Splinter Twin", "Deceiver Exarch"}
RepeatedNames == {"Take an Extra Turn", "Entomb", "Ancient Tomb", "Sanguine Bond"}

BracketLines ==
  {[comment |-> FALSE, count |-> None, name |-> n] : n \in BracketNames}
    \cup {[comment |-> FALSE, count |-> Some(2), name |-> n] : n \in RepeatedNames}
    \cup {[comment |-> TRUE, count |-> None, name |-> "// sideboard"]}

Scores == {0, 499, 500, 649, 650, 799, 800}
ScoreParams ==
  {[given |-> FALSE, numeric |-> FALSE, value |-> 0],
   [given |-> TRUE, numeric |-> FALSE, value |-> 0]}
    \cup {[given |-> TRUE, numeric |-> TRUE, value |-> v] : v \in Scores}

NoScoreParam == [given |-> FALSE, numeric |-> FALSE, value |-> 0]

BracketRequests ==
  {[deckId |-> FALSE, deckList |-> Some(ls), powerScore |-> NoScoreParam] :
     ls \in SeqsUpTo(BracketLines, MaxBracketLines) \ {<<>>}}
    \cup {[deckId |-> FALSE, deckList |-> Some(ls), powerScore |-> p] :
            ls \in SeqsUpTo(BracketLines, MaxScoredLines) \ {<<>>}, p \in ScoreParams}
    \cup {[deckId |-> TRUE, deckList |-> None,
           powerScore |-> [given |-> FALSE, numeric |-> FALSE, value |-> 0]],
          [deckId |-> FALSE, deckList |-> None,
           powerScore |-> [given |-> TRUE, numeric |-> TRUE, value |-> 800]]}

BracketInit ==
  /\ buildMode = FALSE
  /\ cards = <<>>
  /\ bannedList = <<>>
  /\ allowedList = <<>>
  /\ singletonExceptions = <<>>
  /\ request = NoRequest
  /\ response = NoResponse
  /\ history = <<>>
  /\ deckText = <<>>
  /\ parsed = NotParsed
  /\ bracketRequest = NoBracketRequest
  /\ bracketResponse = NoBracketResponse
  /\ LimiterConstructed
  /\ CacheConstructed
  /\ LoaderIdle
  /\ FetchIdle

BracketReceive(req) ==
  /\ bracketRequest = NoBracketRequest
  /\ bracketRequest' = req
  /\ UNCHANGED bracketResponse
  /\ UNCHANGED nonBracketVars

\* the handler runs on the request and returns its Response
BracketHandle ==
  /\ bracketRequest # NoBracketRequest
  /\ bracketResponse = NoBracketResponse
  /\ bracketResponse' = bracketHandler(bracketRequest)
  /\ UNCHANGED bracketRequest
  /\ UNCHANGED nonBracketVars

BracketSend ==
  /\ bracketResponse # NoBracketResponse
  /\ bracketRequest' = NoBracketRequest
  /\ bracketResponse' = NoBracketResponse
  /\ UNCHANGED nonBracketVars

BracketNext ==
  \/ /\ bracketRequest = NoBracketRequest
     /\ \E req \in BracketRequests : BracketReceive(req)
  \/ BracketHandle
  \/ BracketSend

BracketSpec == BracketInit /\ [][BracketNext]_vars

(***************************************************************************)
(* The rate limiter: checks of several clients, the cleanup timer and the  *)
(* clock.                                                                  *)
(***************************************************************************)
\* the delays between two events, in ms
Delays == {30000, 59999}

\* how many checks of a client are followed
ChecksFollowed(clientIp) ==
  IF clientIp = "127.0.0.1" THEN MaxChecks ELSE MaxOtherChecks

LimiterInit ==
  /\ buildMode = FALSE
  /\ cards = <<>>
  /\ bannedList = <<>>
  /\ allowedList = <<>>
  /\ singletonExceptions = <<>>
  /\ request = NoRequest
  /\ response = NoResponse
  /\ history = <<>>
  /\ deckText = <<>>
  /\ parsed = NotParsed
  /\ bracketRequest = NoBracketRequest
  /\ bracketResponse = NoBracketResponse
  /\ LimiterConstructed
  /\ CacheConstructed
  /\ LoaderIdle
  /\ FetchIdle

\* a request of clientIp reaches a route, which calls check(clientIp)
Check(clientIp) ==
  /\ checkLog.total[clientIp] < ChecksFollowed(clientIp)
  /\ LET checked == check(rateLimitStore, clientIp, now)
     IN /\ rateLimitStore' = checked.store
        /\ checkResult' = Some([clientIp |-> clientIp, now |-> now,
                                result |-> checked.result])
  /\ checkLog' =
       [total |-> [checkLog.total EXCEPT ![clientIp] = @ + 1],
        firstAt |-> IF rateLimitStore[clientIp] = None
                    THEN [checkLog.firstAt EXCEPT ![clientIp] = Some(now)]
                    ELSE checkLog.firstAt,
        checks |-> [checkLog.checks EXCEPT ![clientIp] =
                      IF rateLimitStore[clientIp] = None THEN 1 ELSE @ + 1]]
  /\ UNCHANGED <<cleanupInterval, now>>
  /\ UNCHANGED nonLimiterVars

\* the cleanup timer fires, no earlier than it is due
Cleanup ==
  /\ cleanupInterval # None
  /\ now >= cleanupInterval[1]
  /\ rateLimitStore' = cleanup(rateLimitStore, now)
  /\ cleanupInterval' = Some(cleanupInterval[1] + CLEANUP_PERIOD)
  /\ UNCHANGED <<now, checkResult, checkLog>>
  /\ UNCHANGED nonLimiterVars

\* dispose(): the cleanup timer is cleared
Dispose ==
  /\ cleanupInterval # None
  /\ cleanupInterval' = None
  /\ UNCHANGED <<rateLimitStore, now, checkResult, checkLog>>
  /\ UNCHANGED nonLimiterVars

\* time passes
Advance(delay) ==
  /\ now + delay <= MaxClock
  /\ now' = now + delay
  /\ UNCHANGED <<rateLimitStore, cleanupInterval, checkResult, checkLog>>
  /\ UNCHANGED nonLimiterVars

LimiterNext ==
  \/ \E clientIp \in Clients : Check(clientIp)
  \/ Cleanup
  \/ Dispose
  \/ \E delay \in Delays : Advance(delay)

LimiterSpec == LimiterInit /\ [][LimiterNext]_vars

(***************************************************************************)
(* The deck cache: sets and gets of several deck ids, the cleanup timer    *)
(* and the clock.                                                          *)
(***************************************************************************)
\* the delays between two events, in ms
CacheDelays == {1800000, 3600001}

CacheInit ==
  /\ buildMode = FALSE
  /\ cards = <<>>
  /\ bannedList = <<>>
  /\ allowedList = <<>>
  /\ singletonExceptions = <<>>
  /\ request = NoRequest
  /\ response = NoResponse
  /\ history = <<>>
  /\ deckText = <<>>
  /\ parsed = NotParsed
  /\ bracketRequest = NoBracketRequest
  /\ bracketResponse = NoBracketResponse
  /\ LimiterConstructed
  /\ CacheConstructed
  /\ LoaderIdle
  /\ FetchIdle

\* the ids whose entry a step took out of the cache
removedBy(before, after) ==
  {id \in DeckIds : mapHas(before, id) /\ ~mapHas(after, id)}

markRemoved(last, ids) ==
  [id \in DeckIds |->
     IF id \in ids /\ last[id] # None
     THEN Some([last[id][1] EXCEPT !.removed = TRUE])
     ELSE last[id]]

\* set(deckId, deck)
CacheSet(deckId, deck) ==
  /\ cacheLog.sets < MaxSets
  /\ deckCache' = cacheSet(deckCache, deckId, deck, now)
  /\ cacheLog' =
       [sets |-> cacheLog.sets + 1,
        last |-> [markRemoved(cacheLog.last, removedBy(deckCache, deckCache'))
                    EXCEPT ![deckId] = Some([deck |-> deck, at |-> now,
                                             removed |-> FALSE])]]
  /\ UNCHANGED <<cacheCleanupDue, getResult, now>>
  /\ UNCHANGED nonCacheVars

\* get(deckId)
CacheGet(deckId) ==
  /\ LET got == cacheGet(deckCache, deckId, now)
     IN /\ deckCache' = got.cache
        /\ getResult' = Some([deckId |-> deckId, at |-> now, value |-> got.value,
                              logged |-> cacheLog.last[deckId],
                              stored |-> mapHas(got.cache, deckId)])
  /\ cacheLog' = [cacheLog EXCEPT
                    !.last = markRemoved(@, removedBy(deckCache, deckCache'))]
  /\ UNCHANGED <<cacheCleanupDue, now>>
  /\ UNCHANGED nonCacheVars

\* the cleanup timer fires, no earlier than it is due
CacheCleanup ==
  /\ now >= cacheCleanupDue
  /\ deckCache' = cacheCleanup(deckCache, now)
  /\ cacheCleanupDue' = now + CACHE_CLEANUP_PERIOD
  /\ cacheLog' = [cacheLog EXCEPT
                    !.last = markRemoved(@, removedBy(deckCache, deckCache'))]
  /\ UNCHANGED <<getResult, now>>
  /\ UNCHANGED nonCacheVars

\* time passes
CacheAdvance(delay) ==
  /\ now + delay <= MaxCacheClock
  /\ now' = now + delay
  /\ UNCHANGED cacheVars
  /\ UNCHANGED nonCacheVars

CacheNext ==
  \/ \E deckId \in DeckIds, deck \in Decks : CacheSet(deckId, deck)
  \/ \E deckId \in DeckIds : CacheGet(deckId)
  \/ CacheCleanup
  \/ \E delay \in CacheDelays : CacheAdvance(delay)

CacheSpec == CacheInit /\ [][CacheNext]_vars

(***************************************************************************)
(* Loading the card store while check-legality requests are handled.  The  *)
(* constructor starts loadCards and does not await it; every step below    *)
(* runs from one await to the next, as the event loop runs it.             *)
(***************************************************************************)
\* the handler between its awaits: the await of the body, then the rest of
\* the function, from the commander lookup to the Response, with no await
handlerSteps_awaitsAfterCommander == <<"body", "commander", "rest">>

handlerSteps == <<"body", "evaluate">>

LoadRequests ==
  {[method |-> "POST",
    body |-> DeckBody(<<[name |-> "Island", quantity |-> 98]>>, SampleCommander)],
   [method |-> "POST",
    body |-> DeckBody(<<[name |-> "Island", quantity |-> 1]>>, SampleCommander)]}

\* new CardManager() outside build and test mode: an empty store, and
\* loadCards started
LoadInit ==
  /\ buildMode = FALSE
  /\ cards = <<>>
  /\ bannedList = <<>>
  /\ allowedList = <<>>
  /\ singletonExceptions = <<>>
  /\ request = NoRequest
  /\ response = NoResponse
  /\ history = <<>>
  /\ deckText = <<>>
  /\ parsed = NotParsed
  /\ bracketRequest = NoBracketRequest
  /\ bracketResponse = NoBracketResponse
  /\ LimiterConstructed
  /\ CacheConstructed
  /\ FetchIdle
  /\ cacheFile \in {"missing", "invalid", "old"}
  /\ loader = [stack |-> <<loadFrame>>, outcome |-> "running", error |-> "",
               attempts |-> 0, fresh |-> 0, reloads |-> 0,
               populated |-> FALSE]
  /\ inflight = <<>>

Loading(fn, pc) ==
  /\ loader.stack # <<>>
  /\ loader.stack[Len(loader.stack)].fn = fn
  /\ loader.stack[Len(loader.stack)].pc = pc
  /\ loader.attempts < MaxAttempts

\* the requests not yet answered were in flight when the store was assigned
storeAssigned(evals) ==
  [i \in 1..Len(evals) |->
     IF evals[i].pc <= Len(handlerSteps)
     THEN [evals[i] EXCEPT !.sawReload = TRUE] ELSE evals[i]]

\* loadCards reads the cache file: a valid file becomes the store and every
\* caller returns; a missing or invalid one makes it call downloadCards()
ReadCache ==
  /\ Loading("loadCards", "read")
  /\ IF cacheFile \in {"old", "new"}
     THEN /\ cards' = fileContent(cacheFile)
          /\ loader' = returned(loader)
          /\ inflight' = storeAssigned(inflight)
     ELSE /\ loader' = [loader EXCEPT
                          !.stack = Append(suspendAt(@, "catch"),
                                           downloadFrame(DEFAULT_RETRY_COUNT)),
                          !.attempts = @ + 1,
                          !.fresh = @ + 1]
          /\ UNCHANGED <<cards, inflight>>
  /\ UNCHANGED cacheFile
  /\ UNCHANGED nonLoadVars

\* reading the file fails in another way: loadCards throws the error on
ReadFails ==
  /\ Loading("loadCards", "read")
  /\ loader' = propagate(loader, callers(loader.stack),
                         "Unexpected error loading cards")
  /\ UNCHANGED <<cards, cacheFile, inflight>>
  /\ UNCHANGED nonLoadVars

\* downloadCards fetches, processes and caches the cards, then calls loadCards
DownloadSucceeds ==
  /\ Loading("downloadCards", "fetch")
  /\ canFetch(loader.stack[Len(loader.stack)].retryCount)
  /\ cacheFile' = "new"
  /\ loader' = [loader EXCEPT !.stack = Append(suspendAt(@, "reload"), loadFrame)]
  /\ UNCHANGED <<cards, inflight>>
  /\ UNCHANGED nonLoadVars

\* a fetch, the processing or the write fails: the catch block runs
DownloadFails ==
  /\ Loading("downloadCards", "fetch")
  /\ loader' = propagate(loader, loader.stack, "download failed")
  /\ UNCHANGED <<cards, cacheFile, inflight>>
  /\ UNCHANGED nonLoadVars

\* the cache file is removed or rewritten from outside while a load runs
CacheDisturbed(file) ==
  /\ loader.outcome = "running"
  /\ cacheFile \in {"old", "new"}
  /\ cacheFile' = file
  /\ UNCHANGED <<cards, loader, inflight>>
  /\ UNCHANGED nonLoadVars

\* loadCards() is called again on the manager, for a refresh of the store
Reload ==
  /\ loader.outcome # "running"
  /\ loader.reloads < MaxReloads
  /\ loader' = [loader EXCEPT
                  !.stack = <<loadFrame>>, !.outcome = "running", !.error = "",
                  !.attempts = 0, !.fresh = 0, !.reloads = @ + 1]
  /\ cacheFile' \in {cacheFile, "invalid"}
  /\ UNCHANGED <<cards, inflight>>
  /\ UNCHANGED nonLoadVars

\* a request reaches the handler, which awaits its body
Arrive(req) ==
  /\ Len(inflight) < MaxEvals
  /\ inflight' = Append(inflight,
       [request |-> req, pc |-> 1, commanderData |-> None,
        response |-> NoResponse, expected |-> NoResponse,
        populated |-> FALSE, sawReload |-> FALSE])
  /\ UNCHANGED <<cards, cacheFile, loader>>
  /\ UNCHANGED nonLoadVars

\* the handler of request i runs from one await to the next
Step(i) ==
  /\ i \in 1..Len(inflight)
  /\ inflight[i].pc <= Len(handlerSteps)
  /\ LET eval == inflight[i]
         req == eval.request
         kind == handlerSteps[eval.pc]
         next == [eval EXCEPT !.pc = @ + 1]
     IN inflight' = [inflight EXCEPT ![i] =
          CASE kind = "body" -> next
            [] kind = "evaluate" ->
                 [next EXCEPT !.response = handler(req),
                              !.expected = handler(req),
                              !.populated = loader.populated]
            [] kind = "commander" ->
                 [next EXCEPT !.commanderData = fetchCard(req.body.commander.name),
                              !.expected = handler(req),
                              !.populated = loader.populated]
            [] kind = "rest" ->
                 [next EXCEPT !.response =
                    checkDeckWith(req.body.cards, req.body.commander,
                                  eval.commanderData)]]
  /\ UNCHANGED <<cards, cacheFile, loader>>
  /\ UNCHANGED nonLoadVars

LoadNext ==
  \/ ReadCache
  \/ ReadFails
  \/ DownloadSucceeds
  \/ DownloadFails
  \/ \E file \in {"missing", "invalid"} : CacheDisturbed(file)
  \/ Reload
  \/ \E req \in LoadRequests : Arrive(req)
  \/ \E i \in 1..MaxEvals : Step(i)

LoadSpec == LoadInit /\ [][LoadNext]_vars

(***************************************************************************)
(* The fetch-deck handler at work: requests arrive one after the other,    *)
(* the upstream answers each fetch in one of the ways below, and the waits *)
(* between attempts elapse.                                                *)
(***************************************************************************)
NoBody == [valid |-> FALSE, commanders |-> <<>>, mainboard |-> <<>>]
MoxfieldBodies ==
  {NoBody,
   [valid |-> TRUE, commanders |-> <<>>,
    mainboard |-> <<[quantity |-> 98, name |-> "Island"]>>],
   [valid |-> TRUE, commanders |-> <<NivName>>, mainboard |-> <<>>],
   [valid |-> TRUE, commanders |-> <<NivName>>,
    mainboard |-> <<[quantity |-> 98, name |-> "Island"]>>]}

UpstreamStatuses == {304, 404, 429, 500}

\* what a fetch can settle with: an abort by the timeout, a network failure,
\* a non-OK status, or a 200 with a body
UpstreamOutcomes ==
  {[kind |-> "abort", status |-> 0, body |-> NoBody],
   [kind |-> "network", status |-> 0, body |-> NoBody]}
  \cup {[kind |-> "status", status |-> s, body |-> NoBody] : s \in UpstreamStatuses}
  \cup {[kind |-> "status", status |-> 200, body |-> b] : b \in MoxfieldBodies}

FetchInit ==
  /\ buildMode \in BOOLEAN
  /\ cards = <<>>
  /\ bannedList = <<>>
  /\ allowedList = <<>>
  /\ singletonExceptions = <<>>
  /\ request = NoRequest
  /\ response = NoResponse
  /\ history = <<>>
  /\ deckText = <<>>
  /\ parsed = NotParsed
  /\ bracketRequest = NoBracketRequest
  /\ bracketResponse = NoBracketResponse
  /\ LimiterConstructed
  /\ CacheConstructed
  /\ LoaderIdle
  /\ FetchIdle

nonFetchVars == <<cards, bannedList, allowedList, singletonExceptions, buildMode,
                  request, response, history, deckText, parsed, bracketRequest,
                  bracketResponse, cleanupInterval, checkResult, checkLog,
                  cacheCleanupDue, getResult, cacheLog, loadVars>>

\* the handler has returned this response
returns(call, made) == [call EXCEPT !.pc = "done", !.response = made]

\* a request arrives: the handler runs up to its first fetch
FetchArrive(deckId, clientIp) ==
  /\ fetchCall.pc \in {"idle", "done"}
  /\ fetchCall.requests < MaxFetchRequests
  /\ LET call == [pc |-> "fetching", deckId |-> deckId, clientIp |-> clientIp,
                  retries |-> 0, attempts |-> 0, last |-> None,
                  requests |-> fetchCall.requests + 1,
                  response |-> NoFetchResponse]
         rateLimit == check(rateLimitStore, clientIp, now)
         cachedDeck == cacheGet(deckCache, deckId, now)
     IN IF buildMode
        THEN /\ fetchCall' = returns(call, newResponse(503,
                               "Service unavailable during build", "", FALSE).response)
             /\ UNCHANGED <<rateLimitStore, deckCache>>
        ELSE IF deckId = ""
        THEN /\ fetchCall' = returns(call, fetchDeckCreateError(
                               "No deck ID provided", 400, FALSE).response)
             /\ UNCHANGED <<rateLimitStore, deckCache>>
        ELSE IF ~rateLimit.result.allowed
        THEN /\ fetchCall' = returns(call, fetchDeckCreateError(
                               "Rate limit exceeded. Please try again later.",
                               429, TRUE).response)
             /\ rateLimitStore' = rateLimit.store
             /\ UNCHANGED deckCache
        ELSE /\ rateLimitStore' = rateLimit.store
             /\ deckCache' = cachedDeck.cache
             /\ fetchCall' = IF mapHas(cachedDeck.cache, deckId)
                             THEN returns(call, newResponse(200, "", "HIT",
                                                            TRUE).response)
                             ELSE call
  /\ UNCHANGED now
  /\ UNCHANGED nonFetchVars

\* the fetch settles, and the handler runs to its next wait or to its return
UpstreamAnswers(outcome) ==
  /\ fetchCall.pc = "fetching"
  /\ LET tried == [fetchCall EXCEPT !.attempts = @ + 1, !.last = Some(outcome)]
         body == loopBody(outcome, fetchCall.retries)
         rest == afterLoop(outcome.body)
     IN /\ now' = IF outcome.kind = "abort"
                  THEN now + calculateBackoff(fetchCall.retries) ELSE now
        /\ CASE body.next = "retry" ->
                  /\ fetchCall' = [tried EXCEPT !.pc = "backoff", !.retries = @ + 1]
                  /\ UNCHANGED deckCache
             [] body.next = "return" ->
                  /\ fetchCall' = returns(tried, body.response)
                  /\ UNCHANGED deckCache
             [] body.next = "break" ->
                  /\ fetchCall' = returns(tried, rest.response)
                  /\ deckCache' = IF rest.cached
                                  THEN cacheSet(deckCache, fetchCall.deckId,
                                                rest.deck, now')
                                  ELSE deckCache
  /\ UNCHANGED rateLimitStore
  /\ UNCHANGED nonFetchVars

\* the wait before the next attempt is over
BackoffElapses ==
  /\ fetchCall.pc = "backoff"
  /\ fetchCall' = [fetchCall EXCEPT !.pc = "fetching"]
  /\ now' = now + calculateBackoff(fetchCall.retries)
  /\ UNCHANGED <<rateLimitStore, deckCache>>
  /\ UNCHANGED nonFetchVars

FetchNext ==
  \/ \E deckId \in DeckIds, clientIp \in Clients : FetchArrive(deckId, clientIp)
  \/ \E outcome \in UpstreamOutcomes : UpstreamAnswers(outcome)
  \/ BackoffElapses

FetchSpec == FetchInit /\ [][FetchNext]_vars

(***************************************************************************)
(* Properties of the legality evaluation.  The deck, the store and the     *)
(* rule lists are read from the state; the expected outcome is stated      *)
(* without the handler's operators.                                        *)
(***************************************************************************)
deck == request.body.cards
commander == request.body.commander

\* the handler has answered a request that carries a deck (cards and commander)
Evaluated ==
  /\ response # NoResponse
  /\ ~buildMode
  /\ request.method = "POST"
  /\ request.body.parses
  /\ request.body.hasCards
  /\ Len(request.body.cards) > 0
  /\ request.body.hasCommander

RECURSIVE SumOf(_, _)
SumOf(f, S) ==
  IF S = {} THEN 0
  ELSE LET x == CHOOSE y \in S : TRUE IN f[x] + SumOf(f, S \ {x})

Min(S) == CHOOSE x \in S : \A y \in S : x <= y

Lines(n) == {i \in 1..Len(deck) : deck[i].name = n}
MainQuantity(n) == SumOf([i \in 1..Len(deck) |-> deck[i].quantity], Lines(n))
DeckTotal ==
  SumOf([i \in 1..Len(deck) |-> deck[i].quantity], 1..Len(deck)) + commander.quantity

HasWord(type_line, spellings) == \E i \in 1..Len(type_line) : type_line[i] \in spellings
IsTokenRecord(c) ==
  \/ c.layout \in {"token", "double_faced_token"}
  \/ HasWord(c.type_line, {"token", "Token", "TOKEN"})
IsCreature(c) == HasWord(c.type_line, {"creature", "Creature", "CREATURE"})
IsLegendary(c) == HasWord(c.type_line, {"legendary", "Legendary", "LEGENDARY"})

DirectMatches(n) == {i \in 1..Len(cards) : cards[i].name = n}
NonTokenMatches(n) == {i \in DirectMatches(n) : ~IsTokenRecord(cards[i])}
FirstNonToken(n) == cards[Min(NonTokenMatches(n))]

InList(list, n) == n \in {list[i] : i \in 1..Len(list)}
Occurrences(list, n) == Cardinality({i \in 1..Len(list) : list[i] = n})

\* allow/ban override for a stored record
RecordLegal(c) ==
  \/ InList(allowedList, c.name)
  \/ c.pioneer = "legal" /\ ~InList(bannedList, c.name)

\* the commander is found under its name and is a legendary creature
CommanderFound == NonTokenMatches(commander.name) # {}
CommanderPasses ==
  /\ CommanderFound
  /\ IsCreature(FirstNonToken(commander.name))
  /\ IsLegendary(FirstNonToken(commander.name))

IssueSet(field) == field \notin {Null, Absent}

MainNames == {deck[i].name : i \in 1..Len(deck)}
DeckNames == MainNames \cup {commander.name}

\* the record a name is judged by in the per-card legality pass: the first
\* non-token record of that name, else the card owning a face of that name
FaceOwners(n) == {i \in 1..Len(cards) : n \in {cards[i].card_faces[j] : j \in 1..Len(cards[i].card_faces)}}
FaceOwner(n) == cards[Min(FaceOwners(n))]
ResolvesByFace(n) ==
  /\ NonTokenMatches(n) = {}
  /\ FaceOwners(n) # {}
  /\ ~IsTokenRecord(FaceOwner(n))
Resolves(n) == NonTokenMatches(n) # {} \/ ResolvesByFace(n)
Resolved(n) ==
  IF NonTokenMatches(n) # {} THEN FirstNonToken(n) ELSE FirstNonToken(FaceOwner(n).name)

\* the three lists of a full verdict, stated from the deck and the store
ExpectedIllegal == {n \in DeckNames : ~Resolves(n) \/ ~RecordLegal(Resolved(n))}
ExpectedNonSingleton ==
  {n \in MainNames : /\ n \notin {"Plains", "Island", "Swamp", "Mountain", "Forest", "Wastes"}
                     /\ ~InList(singletonExceptions, n)
                     /\ MainQuantity(n) > 1}
ExpectedViolations ==
  {n \in MainNames : /\ NonTokenMatches(n) # {}
                     /\ ~(FirstNonToken(n).color_identity
                            \subseteq FirstNonToken(commander.name).color_identity)}

\* C2 as stated: legal holds exactly when the size check passed, the commander
\* was found and is a legal creature, and the colour-identity, singleton and
\* illegal-card checks passed; nothing else makes a deck illegal.
C2_VerdictAsStated ==
  Evaluated =>
    (response.legal = TRUE <=>
       /\ DeckTotal = 100
       /\ CommanderFound
       /\ IsCreature(FirstNonToken(commander.name))
       /\ RecordLegal(FirstNonToken(commander.name))
       /\ ExpectedViolations = {}
       /\ ExpectedNonSingleton = {}
       /\ ExpectedIllegal = {})

\* C2 amended: legal holds exactly when the size check passed, the commander
\* was found and is a legal LEGENDARY creature, and the colour-identity,
\* singleton and illegal-card checks passed.
C2_Verdict ==
  Evaluated =>
    /\ "legal" \in response.present
    /\ response.legal = TRUE <=>
         /\ DeckTotal = 100
         /\ CommanderPasses
         /\ RecordLegal(FirstNonToken(commander.name))
         /\ ExpectedViolations = {}
         /\ ExpectedNonSingleton = {}
         /\ ExpectedIllegal = {}

C2_Witness ==
  /\ Evaluated
  /\ response.legal = TRUE
  /\ response.deckSize = 100
  /\ Len(deck) = 2

AllowBan(n, r) ==
  \/ InList(allowedList, n)
  \/ r.pioneer = "legal" /\ ~InList(bannedList, n)

\* C4: a name with a record is legal iff it is on the allow list, or its
\* record is pioneer legal and the name is not on the ban list; a name on
\* both lists is legal.  Seen in the verdict: the commander issue and the
\* illegalCards list.
C4_AllowBanPrecedence ==
  (Evaluated /\ CommanderPasses) =>
    /\ response.legalIssues.commander = Null <=>
         AllowBan(commander.name, FirstNonToken(commander.name))
    /\ \A n \in DeckNames :
         NonTokenMatches(n) # {} =>
           (InList(response.illegalCards, n) <=> ~AllowBan(n, FirstNonToken(n)))

C4_Witness ==
  /\ Evaluated
  /\ CommanderPasses
  /\ \E n \in MainNames :
       /\ NonTokenMatches(n) # {}
       /\ InList(allowedList, n)
       /\ InList(bannedList, n)
       /\ FirstNonToken(n).pioneer # "legal"
       /\ ~InList(response.illegalCards, n)

\* resolution as the specification describes it: the first non-token record of
\* the name; with no record of the name at all, the non-token card owning a
\* face of that name
NotFoundError == "Commander not found in database"
IsFaceEntry(n) ==
  /\ DirectMatches(n) = {}
  /\ FaceOwners(n) # {}
  /\ ~IsTokenRecord(FaceOwner(n))
SpecResolves(n) == NonTokenMatches(n) # {} \/ IsFaceEntry(n)
SpecResolved(n) ==
  IF NonTokenMatches(n) # {} THEN FirstNonToken(n) ELSE FirstNonToken(FaceOwner(n).name)
CommanderColors == FirstNonToken(commander.name).color_identity
TotalQuantity(n) ==
  MainQuantity(n) + (IF commander.name = n THEN commander.quantity ELSE 0)

\* C5: a name that is neither a basic land nor a singleton exception is in
\* nonSingletonCards, exactly once, iff its quantities over every main-deck
\* line and the commander sum to more than 1; basic lands and exceptions are
\* never listed.
C5_SingletonAggregation ==
  (Evaluated /\ CommanderPasses) =>
    \A n \in DeckNames :
      IF n \in {"Plains", "Island", "Swamp", "Mountain", "Forest", "Wastes"}
           \/ InList(singletonExceptions, n)
      THEN Occurrences(response.nonSingletonCards, n) = 0
      ELSE Occurrences(response.nonSingletonCards, n)
             = (IF TotalQuantity(n) > 1 THEN 1 ELSE 0)

\* C6: a main-deck entry is in colorIdentityViolations iff the colour identity
\* of the card it resolves to is not a subset of the commander's; a colourless
\* card is never listed.
C6_ColorIdentityContainment ==
  (Evaluated /\ CommanderPasses) =>
    \A n \in MainNames :
      InList(response.colorIdentityViolations, n) <=>
        (SpecResolves(n) /\ ~(SpecResolved(n).color_identity \subseteq CommanderColors))

\* C7: an entry named as one face of a non-token double-faced card resolves to
\* that card in the commander lookup, the per-card legality pass and the
\* colour-identity check, as if cited by the card's "Front // Back" name.
C7_DFCResolutionUniform ==
  Evaluated =>
    /\ IsFaceEntry(commander.name) => response.error # NotFoundError
    /\ CommanderPasses =>
         \A n \in MainNames :
           IsFaceEntry(n) =>
             /\ InList(response.illegalCards, n) <=> ~RecordLegal(SpecResolved(n))
             /\ InList(response.colorIdentityViolations, n) <=>
                  ~(SpecResolved(n).color_identity \subseteq CommanderColors)

\* C8 as stated: a name with stored records of exactly that name resolves to
\* the first non-token one, and to not-found when all of them are tokens (the
\* face-name search is only for names without any record).
C8_TokenDisambiguationAsStated ==
  Evaluated =>
    /\ DirectMatches(commander.name) # {} =>
         (response.error = NotFoundError <=> NonTokenMatches(commander.name) = {})
    /\ CommanderPasses =>
         /\ response.colorIdentity = CommanderColors
         /\ \A n \in MainNames :
              DirectMatches(n) # {} =>
                IF NonTokenMatches(n) # {}
                THEN /\ InList(response.illegalCards, n) <=> ~RecordLegal(FirstNonToken(n))
                     /\ InList(response.colorIdentityViolations, n) <=>
                          ~(FirstNonToken(n).color_identity \subseteq CommanderColors)
                ELSE /\ InList(response.illegalCards, n)
                     /\ ~InList(response.colorIdentityViolations, n)

\* C8 amended: a name with stored records of exactly that name resolves to the
\* first non-token one; when all of them are tokens, fetchCard (commander and
\* colour-identity lookups) returns not-found, and the per-card legality pass
\* goes on to the face-name search as it does for a name without any record.
\* A token record is never what a deck entry resolves to.
C8_TokenDisambiguation ==
  Evaluated =>
    /\ DirectMatches(commander.name) # {} =>
         (response.error = NotFoundError <=> NonTokenMatches(commander.name) = {})
    /\ CommanderPasses =>
         /\ response.colorIdentity = CommanderColors
         /\ \A n \in MainNames :
              DirectMatches(n) # {} =>
                IF NonTokenMatches(n) # {}
                THEN /\ InList(response.illegalCards, n) <=> ~RecordLegal(FirstNonToken(n))
                     /\ InList(response.colorIdentityViolations, n) <=>
                          ~(FirstNonToken(n).color_identity \subseteq CommanderColors)
                ELSE /\ InList(response.illegalCards, n) <=>
                          ~(ResolvesByFace(n) /\ RecordLegal(Resolved(n)))
                     /\ ~InList(response.colorIdentityViolations, n)

C8_Witness ==
  /\ Evaluated
  /\ Cardinality(DirectMatches(commander.name)) = 2
  /\ IsTokenRecord(cards[1])
  /\ CommanderPasses
  /\ response.colorIdentity = cards[2].color_identity
  /\ \E n \in MainNames : n = commander.name /\ ~InList(response.illegalCards, n)

C10_CommanderTypeAsStated ==
  (Evaluated /\ CommanderFound) =>
    /\ IssueSet(response.legalIssues.commanderType) <=>
         ~IsCreature(FirstNonToken(commander.name))
    /\ IssueSet(response.legalIssues.commanderType) => response.legal = FALSE

\* C10 amended: for a commander that resolves, legalIssues.commanderType is
\* non-null exactly when its type line lacks "creature" or lacks "legendary",
\* and then legal = false whatever the other checks give.
C10_CommanderType ==
  (Evaluated /\ CommanderFound) =>
    /\ IssueSet(response.legalIssues.commanderType) <=>
         (~IsCreature(FirstNonToken(commander.name))
            \/ ~IsLegendary(FirstNonToken(commander.name)))
    /\ IssueSet(response.legalIssues.commanderType) =>
         ("legal" \in response.present /\ response.legal = FALSE)

C10_Witness ==
  /\ Evaluated
  /\ CommanderFound
  /\ ~IsCreature(FirstNonToken(commander.name))
  /\ DeckTotal = 100
  /\ ExpectedNonSingleton = {}
  /\ ExpectedIllegal \subseteq {commander.name}
  /\ IssueSet(response.legalIssues.commanderType)
  /\ response.legal = FALSE

\* C11: in a full verdict every name of the deck (main deck or commander) that
\* fails resolution or per-card legality is in illegalCards exactly once,
\* whatever its quantity and however many deck lines carry it; a name that
\* resolves and is legal is never listed.
C11_IllegalCardsDistinct ==
  (Evaluated /\ "illegalCards" \in response.present) =>
    \A n \in DeckNames :
      Occurrences(response.illegalCards, n) = (IF n \in ExpectedIllegal THEN 1 ELSE 0)

Newlines == {i \in 1..Len(deckText) : deckText[i] = "\n"}
LineCount == Cardinality(Newlines) + 1
NthNewline(k) == CHOOSE i \in Newlines : Cardinality({j \in Newlines : j <= i}) = k
LineStart(k) == IF k = 1 THEN 1 ELSE NthNewline(k - 1) + 1
LineEnd(k) == IF k = LineCount THEN Len(deckText) ELSE NthNewline(k) - 1
LineOf(k) == SubSeq(deckText, LineStart(k), LineEnd(k))

Max(S) == CHOOSE x \in S : \A y \in S : x >= y
Inked(l) == {i \in 1..Len(l) : l[i] # " "}
IsBlankLine(l) == Inked(l) = {}
BlankLines == {k \in 1..LineCount : IsBlankLine(LineOf(k))}
Separator == Min(BlankLines)

\* the first white-space-delimited token of a non-blank line, and what follows
\* it once the white space around it is dropped
TokenEnd(l) == Max({j \in Inked(l) : \A i \in Min(Inked(l))..j : i \in Inked(l)})
LeadToken(l) == SubSeq(l, Min(Inked(l)), TokenEnd(l))
NameOf(l) ==
  LET rest == {i \in Inked(l) : i > TokenEnd(l)}
  IN IF rest = {} THEN <<>> ELSE SubSeq(l, Min(rest), Max(rest))

AllDigits(t) == Len(t) > 0 /\ \A i \in 1..Len(t) : t[i] \in {"0", "1", "2"}
DigitPrefix(t) ==
  SubSeq(t, 1, Max({0} \cup {j \in 1..Len(t) : AllDigits(SubSeq(t, 1, j))}))
RECURSIVE Decimal(_)
Decimal(t) ==
  IF Len(t) = 0 THEN 0
  ELSE 10 * Decimal(SubSeq(t, 1, Len(t) - 1))
         + (CASE t[Len(t)] = "0" -> 0 [] t[Len(t)] = "1" -> 1 [] t[Len(t)] = "2" -> 2)
IsPositiveInteger(t) == AllDigits(t) /\ Decimal(t) >= 1

\* the lines a deck entry is read from: those before the separator and the
\* one after it
EntryLines == (1..(Separator - 1)) \cup {Separator + 1}
ParseRan == parsed # NotParsed

\* C14: parseDeckList throws, returning no part of a deck list, iff the string
\* has no blank separator line, or the line after the separator is absent or
\* empty, or the leading token of the commander line or of a main-deck line is
\* not a positive integer; on every other string it returns a deck list.
C14_ParserFailures ==
  ParseRan =>
    /\ parsed.threw <=>
         \/ BlankLines = {}
         \/ Separator = LineCount
         \/ IsBlankLine(LineOf(Separator + 1))
         \/ \E k \in EntryLines : ~IsPositiveInteger(LeadToken(LineOf(k)))
    /\ parsed.threw => (parsed.mainDeck = <<>> /\ parsed.commander = NoCard)
    /\ ~parsed.threw => parsed.returned

\* the words of a string: its maximal runs of characters other than the space
WordStarts(l) == {i \in Inked(l) : i = 1 \/ (i - 1) \notin Inked(l)}
WordEnd(l, i) == Max({j \in Inked(l) : \A m \in i..j : m \in Inked(l)})
RECURSIVE WordsFrom(_, _)
WordsFrom(l, starts) ==
  IF starts = {} THEN <<>>
  ELSE <<SubSeq(l, Min(starts), WordEnd(l, Min(starts)))>>
         \o WordsFrom(l, starts \ {Min(starts)})
Words(l) == WordsFrom(l, WordStarts(l))

\* the line is a quantity, one space and a name, with no other white space
\* around them
IsPlainLine(l) ==
  /\ Len(l) > 0
  /\ l[1] # " "
  /\ l[Len(l)] # " "
  /\ \A i \in 1..(Len(l) - 1) : ~(l[i] = " " /\ l[i + 1] = " ")

\* the entry parseDeckList is to make of line k
ReadsLine(card, k) ==
  /\ card.quantity = Decimal(DigitPrefix(LeadToken(LineOf(k))))
  /\ Words(card.name) = Tail(Words(LineOf(k)))
  /\ IsPlainLine(LineOf(k)) => card.name = NameOf(LineOf(k))

FirstLineAfterSeparator == Min({k \in 1..LineCount : k > Separator /\ ~IsBlankLine(LineOf(k))})

Unpadded(l) ==
  IF IsBlankLine(l) THEN <<>>
  ELSE IF NameOf(l) = <<>> THEN LeadToken(l)
  ELSE LeadToken(l) \o <<" ">> \o NameOf(l)
UnpaddedText == join([k \in 1..LineCount |-> Unpadded(LineOf(k))], "\n")

\* C16: every line is trimmed and the quantity is split from the name at the
\* first run of white space, so a string parses to the same result as the
\* string whose lines carry no leading or trailing white space and a single
\* space between quantity and name.
C16_WhitespaceHandling ==
  ParseRan => parsed = parseDeckList(UnpaddedText)

(***************************************************************************)
(* Properties of the bracket classification.  The counts are taken from    *)
(* the lines of the request: a name counts once per copy.                  *)
(***************************************************************************)
BracketEvaluated == bracketResponse.status = 200
bracketLines == bracketRequest.deckList[1]
CardLines == {i \in 1..Len(bracketLines) : ~bracketLines[i].comment}
CopiesOnLine(i) == IF bracketLines[i].count = <<>> THEN 1 ELSE bracketLines[i].count[1]
CatalogCount(S) ==
  SumOf([i \in 1..Len(bracketLines) |-> CopiesOnLine(i)],
        {i \in CardLines : toLowerCase(bracketLines[i].name) \in S})
Copies(n) == CatalogCount({n})

MassLandDenialCount == CatalogCount({"armageddon", "blood moon"})
ChainingCount == CatalogCount({"time warp", "expropriate"})
ExtraTurnCount == ChainingCount + CatalogCount({"take an extra turn"})
TutorCount == CatalogCount({"entomb", "demonic tutor", "enlightened tutor"})
GameChangerCount == CatalogCount({"ancient tomb", "demonic tutor", "expropriate"})

LateCombos == {{"kiki-jiki, mirror breaker", "zealous conscripts"},
               {"sanguine bond", "exquisite blood"}}
EarlyCombos == {{"splinter twin", "deceiver exarch"}}
PresentCombos(S) == {c \in S : \A n \in c : Copies(n) > 0}
ComboPresent == PresentCombos(LateCombos \cup EarlyCombos) # {}

Within(count, max) == max = Infinity \/ count <= max
\* the counts of a deck against one table row; combos are within the row when
\* there is none or the row sets no maximum
RowAllows(row, counts) ==
  /\ Within(counts.massLandDenial, row.maxMassLandDenial)
  /\ Within(counts.extraTurns, row.maxExtraTurns)
  /\ Within(counts.tutors, row.maxTutors)
  /\ Within(counts.gameChangers, row.maxGameChangers)
  /\ (counts.combo => row.maxTwoCardCombos = Infinity)
  /\ (counts.chaining = 0 \/ row.allowsExtraTurnChaining)
  /\ (~counts.earlyCombo \/ row.allowsEarlyGameCombos)
DeckCounts ==
  [massLandDenial |-> MassLandDenialCount, extraTurns |-> ExtraTurnCount,
   tutors |-> TutorCount, gameChangers |-> GameChangerCount,
   combo |-> ComboPresent, chaining |-> ChainingCount,
   earlyCombo |-> PresentCombos(EarlyCombos) # {}]

\* C17: minimumBracket is the lowest bracket whose table row the deck
\* satisfies (no category count above the row's maximum, chaining cards absent
\* or allowed, early-game combos absent or allowed); one tutor and nothing of
\* any other category gives bracket 1.
C17_MinimumBracket ==
  BracketEvaluated =>
    LET counts == DeckCounts
    IN /\ bracketResponse.minimumBracket
            = Min({b \in 1..4 : RowAllows(BRACKET_REQUIREMENTS[b], counts)})
       /\ (/\ counts.tutors = 1
           /\ counts.massLandDenial = 0
           /\ counts.extraTurns = 0
           /\ counts.gameChangers = 0
           /\ ~counts.combo) => bracketResponse.minimumBracket = 1

C17_Witness ==
  /\ BracketEvaluated
  /\ TutorCount = 3
  /\ ExtraTurnCount = 2
  /\ ChainingCount = 0
  /\ bracketResponse.minimumBracket = 2

\* the power score the request supplies
ScoreSupplied == bracketRequest.powerScore.given /\ bracketRequest.powerScore.numeric
ScoreBracket ==
  LET score == bracketRequest.powerScore.value
  IN IF ~ScoreSupplied THEN 0
     ELSE IF score >= 800 THEN 4
     ELSE IF score >= 650 THEN 3
     ELSE IF score >= 500 THEN 2
     ELSE 0

\* C18: recommendedBracket is the larger of minimumBracket and the bracket
\* the power score maps to (4 from 800, 3 from 650, 2 from 500, none below);
\* without a power score it is minimumBracket; it is never below
\* minimumBracket.
C18_RecommendedBracket ==
  BracketEvaluated =>
    /\ bracketResponse.recommendedBracket
         = Max({bracketResponse.minimumBracket, ScoreBracket})
    /\ ~ScoreSupplied =>
         bracketResponse.recommendedBracket = bracketResponse.minimumBracket
    /\ bracketResponse.recommendedBracket >= bracketResponse.minimumBracket

C18_Witness ==
  /\ BracketEvaluated
  /\ ScoreSupplied
  /\ bracketRequest.powerScore.value = 500
  /\ GameChangerCount = 1
  /\ bracketResponse.minimumBracket = 3
  /\ bracketResponse.recommendedBracket = 3

\* the names of a list, each kept once, in the order of first occurrence
RECURSIVE DistinctNames(_)
DistinctNames(list) ==
  IF Len(list) = 0 THEN <<>>
  ELSE LET front == DistinctNames(SubSeq(list, 1, Len(list) - 1))
       IN IF InList(front, list[Len(list)]) THEN front
          ELSE Append(front, list[Len(list)])

\* C19: combos are found over distinct names: a list with one entry per
\* physical copy gives the same twoCardCombos, with every present pair listed
\* once, and the same minimumBracket as the list of its distinct names.
C19_CombosOverDistinctNames ==
  BracketEvaluated =>
    LET once == analyzeDeckForBracket(
                  DistinctNames(bracketParseDeckList(bracketLines)),
                  orUndefined(Number(bracketRequest.powerScore)))
    IN /\ bracketResponse.twoCardCombos = once.twoCardCombos
       /\ Len(bracketResponse.twoCardCombos)
            = Cardinality(PresentCombos(LateCombos \cup EarlyCombos))
       /\ bracketResponse.minimumBracket = once.minimumBracket

(***************************************************************************)
(* Properties of the rate limiter.  checkLog counts, for each client, the  *)
(* checks made since the check that found no entry for it.                 *)
(***************************************************************************)
Checked == checkResult # None
lastClient == checkResult[1].clientIp
\* the last check is the n-th of its client since that client had no entry
Ordinal == checkLog.checks[lastClient]
\* the last check fell into the 60 seconds after that first check
InFirstWindow ==
  /\ checkLog.firstAt[lastClient] # None
  /\ checkResult[1].now - checkLog.firstAt[lastClient][1] < 60000

\* C20: for a client with no stored entry the first check is allowed and
\* reports X-RateLimit-Remaining = 29, and within the 60 seconds from that
\* check exactly the first 30 checks of the client are allowed and every
\* further one is denied.
C20_Quota ==
  (Checked /\ InFirstWindow) =>
    /\ checkResult[1].result.allowed <=> Ordinal <= 30
    /\ Ordinal = 1 =>
         checkResult[1].result.headers["X-RateLimit-Remaining"] = <<"2", "9">>

\* the 31st check of a client, made 59.999 s after its first, is denied
C20_Witness ==
  /\ Checked
  /\ InFirstWindow
  /\ Ordinal = 31
  /\ checkResult[1].now - checkLog.firstAt[lastClient][1] = 59999
  /\ ~checkResult[1].result.allowed

\* a deck list reached the analysis: the request named no deck id
BracketAnalysed ==
  /\ bracketResponse # NoBracketResponse
  /\ ~bracketRequest.deckId
  /\ bracketRequest.deckList # None
failedBrackets ==
  [k \in 1..Len(bracketResponse.bracketRequirementsFailed) |->
     bracketResponse.bracketRequirementsFailed[k].bracket]

\* C30: the minimum-bracket search tries the brackets in increasing order and
\* stops at a bracket that has a table row: for every card list the analysis
\* returns (it does not fail on a row past the table), minimumBracket is in
\* 1..4, and the brackets that failed are exactly those below minimumBracket,
\* in increasing order.
C30_SearchInsideTable ==
  BracketAnalysed =>
    /\ bracketResponse.status = 200
    /\ bracketResponse.minimumBracket \in 1..4
    /\ {failedBrackets[k] : k \in 1..Len(failedBrackets)}
         = 1..(bracketResponse.minimumBracket - 1)
    /\ \A k \in 1..(Len(failedBrackets) - 1) :
         failedBrackets[k] <= failedBrackets[k + 1]

\* a deck with a mass land denial card fails rows 1 to 3 and stops at row 4
C30_Witness ==
  /\ BracketAnalysed
  /\ MassLandDenialCount >= 1
  /\ bracketResponse.status = 200
  /\ bracketResponse.minimumBracket = 4
  /\ \E k \in 1..Len(failedBrackets) : failedBrackets[k] = 3

DigitChars == {"0", "1", "2", "3", "4", "5", "6", "7", "8", "9"}
\* the decimal strings of 0, 1, ..., 29
ZeroTo29 ==
  {<<d>> : d \in DigitChars} \cup {<<t, d>> : t \in {"1", "2"}, d \in DigitChars}

\* C26: after any checks and cleanups at any times, every result with
\* allowed = true carries an X-RateLimit-Remaining between 0 and 29, also in
\* a window that follows a window with a non-zero count.
C26_RemainingRange ==
  (Checked /\ checkResult[1].result.allowed) =>
    checkResult[1].result.headers["X-RateLimit-Remaining"] \in ZeroTo29

(***************************************************************************)
(* Properties of the deck cache.  cacheLog keeps, for each deck id, the    *)
(* deck and the time of its last set and whether its entry was taken out   *)
(* of the cache since; getResult keeps what the log said when get ran.      *)
(***************************************************************************)
GetMade == getResult # None
got == getResult[1]
NeverSet == got.logged = None
Age == got.at - got.logged[1].at

\* C21: get(id) returns null if id was never set or its entry was evicted,
\* returns the deck most recently set for id while that entry is no older
\* than the TTL of 60 minutes, and returns null and leaves no entry for id
\* once the entry is older than that.
C21_CacheLookup ==
  GetMade =>
    /\ NeverSet => got.value = "null"
    /\ (~NeverSet /\ got.logged[1].removed) => got.value = "null"
    /\ (~NeverSet /\ ~got.logged[1].removed /\ Age <= 3600000) =>
         got.value = got.logged[1].deck
    /\ (~NeverSet /\ Age > 3600000) => (got.value = "null" /\ ~got.stored)

\* a get made exactly 60 minutes after the set returns the deck
C21_Witness ==
  /\ GetMade
  /\ ~NeverSet
  /\ ~got.logged[1].removed
  /\ Age = 3600000
  /\ got.value = got.logged[1].deck

cachedIds(entries) == {entries[i].key : i \in 1..Len(entries)}
stampOf(entries, id) ==
  (CHOOSE e \in {entries[i] : i \in 1..Len(entries)} : e.key = id).value.timestamp
\* the step is a set of deck id
IsSetOf(id) ==
  /\ cacheLog'.sets = cacheLog.sets + 1
  /\ cacheLog'.last[id] # None
  /\ mapHas(deckCache', id)
  /\ stampOf(deckCache', id) = now
  /\ \A other \in DeckIds \ {id} : cacheLog'.last[other] # None =>
       (cacheLog.last[other] # None
          /\ cacheLog'.last[other][1].at = cacheLog.last[other][1].at)
  /\ \/ cacheLog.last[id] = None
     \/ cacheLog'.last[id][1] # cacheLog.last[id][1]
     \/ cacheLog'.last[id][1].at = now

Answered == response # NoResponse
\* the body of the Response holds an error message and nothing else
ErrorOnly(status, message) ==
  /\ response.status = status
  /\ response.present = {"error"}
  /\ response.error = message

Malformed ==
  \/ ~request.body.parses
  \/ ~request.body.hasCards
  \/ Len(request.body.cards) = 0
  \/ ~request.body.hasCommander
\* a 400-class error and no verdict
ClientError ==
  /\ response.status \in 400..499
  /\ "error" \in response.present
  /\ "legal" \notin response.present
\* a success Response with the legal flag, and with an error message or the
\* issue fields when the deck is illegal
VerdictResponse ==
  /\ response.status = 200
  /\ "legal" \in response.present
  /\ ~response.legal =>
       ("error" \in response.present \/ "legalIssues" \in response.present)

downloadFrames ==
  {i \in 1..Len(loader.stack) : loader.stack[i].fn = "downloadCards"}

\* C29: a load whose cache file is missing or invalid calls downloadCards with
\* retryCount 3; there are at most 4 downloadCards calls in the load, the
\* calls never start over with a fresh number of retries, and the load ends
\* with the cards loaded or with the error "Failed to download card data
\* after all retry attempts".
C29_DownloadTerminates ==
  /\ downloadFrames # {} =>
       loader.stack[CHOOSE i \in downloadFrames :
                      \A j \in downloadFrames : i <= j].retryCount = 3
  /\ loader.attempts <= 4
  /\ loader.fresh <= 1
  /\ Cardinality(downloadFrames) <= 4
  /\ (loader.outcome = "failed" /\ loader.fresh >= 1) =>
       loader.error = "Failed to download card data after all retry attempts"

(***************************************************************************)
(* Properties of the requests handled while the store loads.  Each request *)
(* keeps whether the store had been populated when its card lookups ran,   *)
(* whether the store was assigned while it was in flight, and the verdict  *)
(* of the handler on the store as it was at its first lookup.              *)
(***************************************************************************)
Done(i) == i \in 1..Len(inflight) /\ inflight[i].pc > Len(handlerSteps)

\* C25: no evaluation is served from a store whose initial load has not
\* completed: the card lookups of every answered request ran after the store
\* had been populated.
C25_PopulatedBeforeEvaluation ==
  \A i \in 1..Len(inflight) : Done(i) => inflight[i].populated

\* request i has moved on in this step
Stepped(i) == i \in 1..Len(inflight) /\ inflight'[i].pc # inflight[i].pc

lastOutcome == fetchCall.last[1]

Retryable(outcome) ==
  \/ outcome.kind \in {"abort", "network"}
  \/ outcome.kind = "status" /\ outcome.status = 429

\* C28: a request that misses the cache makes at most maxRetries + 1 = 4
\* upstream fetches and has returned once the fourth is settled; an attempt
\* is repeated only after an upstream 429 or a timeout or network error, and
\* any other non-OK upstream status ends the loop at once, with a response.
C28_RetryLoopTerminates ==
  /\ fetchCall.attempts <= maxRetries + 1
  /\ fetchCall.attempts = maxRetries + 1 => fetchCall.pc = "done"
  /\ fetchCall.pc = "done" => fetchCall.response # NoFetchResponse
  /\ fetchCall.attempts > 0 =>
       /\ fetchCall.pc = "backoff" => Retryable(lastOutcome)
       /\ fetchCall.pc = "fetching" => Retryable(lastOutcome)
       /\ (lastOutcome.kind = "status" /\ ~(lastOutcome.status \in 200..299)
            /\ lastOutcome.status # 429) => fetchCall.pc = "done"

====
